---- MODULE Spec2Model ----
(***************************************************************************)
(* Behavioural-bias benchmark: the evaluation orchestrator                 *)
(* (src/core/evaluator.py), the bias scoring engine                        *)
(* (src/detectors/bias_calculator.py), the provider gateway                *)
(* (src/agents/llm_client.py) and the benchmark route (src/api/routes.py). *)
(*                                                                         *)
(* Numbers.  Python floats are modelled as exact fixed-point integers:     *)
(*   a confidence c is the integer c * ConfUnit   (ConfUnit  = 10^5),      *)
(*   a bias score s is the integer s * ScoreUnit  (ScoreUnit = 10^8).      *)
(* Every product and quotient of the scoring formulas is exact in these    *)
(* units; floating-point rounding is not modelled.                         *)
(*                                                                         *)
(* Text.  A response is a sequence of lexemes [k, n, lc]: k is the lexeme  *)
(* in upper case ("BUY", "CONFIDENCE", "NUM", "PCT", "WS", ...), n the     *)
(* value of a NUM lexeme (a run of one to three digits without leading     *)
(* zeros) and lc says whether a word was written in lower case.  Adjacent  *)
(* word lexemes form one word, as adjacent word characters do for \b.      *)
(***************************************************************************)
EXTENDS Integers, Sequences, FiniteSets, TLC

\* ------------------------------------------------------------------ bounds
NumAgents == 2
NumScenarios == 5
NumResponses == 2
MaxAgentIds == 2
MaxScenarioIds == 3
MaxTasks == 4
MaxConcurrency == 2
MaxTracedTasks == 2
NumPhrases == 13

\* ------------------------------------------------------------ fixed point
ConfUnit == 1000 * 100
ScoreUnit == 1000 * ConfUnit

Abs(x) == IF x < 0 THEN -x ELSE x
Min(a, b) == IF a < b THEN a ELSE b
Max(a, b) == IF a > b THEN a ELSE b

\* ------------------------------------------------------------------- text
Tok(kind) == [k |-> kind, n |-> 0, lc |-> FALSE]
LowerTok(kind) == [k |-> kind, n |-> 0, lc |-> TRUE]
Num(v) == [k |-> "NUM", n |-> v, lc |-> FALSE]

ActionWords == {"BUY", "SELL", "HOLD", "ABSTAIN"}
ChoiceWords == {"A", "B"}
\* lexemes made of word characters [A-Za-z0-9_]
WordKinds == ActionWords \cup ChoiceWords \cup {"CONFIDENCE", "SCORE", "WORD", "NUM"}

KindAt(s, i) == IF i >= 1 /\ i <= Len(s) THEN s[i].k ELSE "END"
IsWordAt(s, i) == KindAt(s, i) \in WordKinds
\* \b between position i-1 and i
BoundaryBefore(s, i) == IsWordAt(s, i - 1) # IsWordAt(s, i)

\* re.search of \b(BUY|SELL|HOLD|ABSTAIN)\b or \b([AB])\b: leftmost whole word
WholeWordHits(s, words) ==
    {i \in 1..Len(s) : /\ s[i].k \in words
                       /\ BoundaryBefore(s, i)
                       /\ BoundaryBefore(s, i + 1)}

FirstOf(S) == CHOOSE i \in S : \A j \in S : i <= j

\* extract_action with a bug: the search is case-sensitive
extract_action_case_sensitive(response) ==
    LET hits == {i \in WholeWordHits(response, ActionWords) : ~response[i].lc}
    IN  IF hits = {} THEN "UNKNOWN" ELSE response[FirstOf(hits)].k

\* action_match.group(1).upper(): the lexeme's upper-case form, whatever its case
extract_action(response) ==
    LET hits == WholeWordHits(response, ActionWords)
    IN  IF hits = {} THEN "UNKNOWN" ELSE response[FirstOf(hits)].k

\* extract_binary_choice with a bug: the letter need not be a whole word
extract_binary_choice_any_letter(response) ==
    LET hits == {i \in 1..Len(response) : response[i].k \in ChoiceWords}
    IN  IF hits = {} THEN "None" ELSE response[FirstOf(hits)].k

\* match.group(1).upper() of CHOICE_RE.search, None when there is no match
extract_binary_choice(response) ==
    LET hits == WholeWordHits(response, ChoiceWords)
    IN  IF hits = {} THEN "None" ELSE response[FirstOf(hits)].k

\* greedy \s* from position i: the first position that is not whitespace
RECURSIVE SkipWS(_, _)
SkipWS(s, i) == IF KindAt(s, i) = "WS" THEN SkipWS(s, i + 1) ELSE i

Digits(n) == IF n < 10 THEN 1 ELSE IF n < 100 THEN 2 ELSE 3
Pow10(d) == IF d = 0 THEN 1 ELSE IF d = 1 THEN 10 ELSE IF d = 2 THEN 100 ELSE 1000

\* (\d{1,3}(?:\.\d+)?) at position i: <<matched, value * 1000, next position>>
NumberAt(s, i) ==
    IF KindAt(s, i) # "NUM" THEN <<FALSE, 0, i>>
    ELSE IF KindAt(s, i + 1) = "DOT" /\ KindAt(s, i + 2) = "NUM"
         THEN <<TRUE,
                s[i].n * 1000 + s[i + 2].n * Pow10(3 - Digits(s[i + 2].n)),
                i + 3>>
         ELSE <<TRUE, s[i].n * 1000, i + 1>>

\* \s*[:=]?\s*(\d{1,3}(?:\.\d+)?) from position p
ValueAfter(s, p) ==
    LET p1 == SkipWS(s, p)
        p2 == IF KindAt(s, p1) \in {"COLON", "EQ"} THEN p1 + 1 ELSE p1
    IN  NumberAt(s, SkipWS(s, p2))

\* confidence(?:\s*score)?\s*[:=]?\s*(\d{1,3}(?:\.\d+)?)\s*%?  matched at i
Pattern1At(s, i) ==
    IF KindAt(s, i) # "CONFIDENCE" THEN <<FALSE, 0, i>>
    ELSE LET j == SkipWS(s, i + 1)
             withScore == IF KindAt(s, j) = "SCORE"
                          THEN ValueAfter(s, j + 1) ELSE <<FALSE, 0, i>>
         IN  IF withScore[1] THEN withScore ELSE ValueAfter(s, i + 1)

\* (\d{1,3}(?:\.\d+)?)\s*%\s*confidence  matched at i
Pattern2At(s, i) ==
    LET num == NumberAt(s, i)
        pct == SkipWS(s, num[3])
    IN  IF /\ num[1]
           /\ KindAt(s, pct) = "PCT"
           /\ KindAt(s, SkipWS(s, pct + 1)) = "CONFIDENCE"
        THEN num ELSE <<FALSE, 0, i>>

\* \b(\d{1,3}(?:\.\d+)?)\s*%\b  matched at i: a word character must follow the %
PercentAt(s, i) ==
    LET num == NumberAt(s, i)
        pct == SkipWS(s, num[3])
    IN  IF /\ num[1]
           /\ BoundaryBefore(s, i)
           /\ KindAt(s, pct) = "PCT"
           /\ IsWordAt(s, pct + 1)
        THEN num ELSE <<FALSE, 0, i>>

\* Clamp with a bug: the value is passed through
Clamp_passes(lo, hi, v) == v

Clamp(lo, hi, v) == Max(lo, Min(hi, v))

\* DefaultConfidence with a bug: a quarter instead of a half
DefaultConfidence_quarter == ConfUnit \div 4

\* return 0.5 when nothing matched
DefaultConfidence == ConfUnit \div 2

\* extract_confidence: the result times ConfUnit
extract_confidence(response) ==
    LET idx == 1..Len(response)
        h1 == {i \in idx : Pattern1At(response, i)[1]}
        h2 == {i \in idx : Pattern2At(response, i)[1]}
        h3 == {i \in idx : PercentAt(response, i)[1]}
    IN  IF h1 # {} THEN Clamp(0, 100 * 1000, Pattern1At(response, FirstOf(h1))[2])
        ELSE IF h2 # {} THEN Clamp(0, 100 * 1000, Pattern2At(response, FirstOf(h2))[2])
        ELSE IF h3 # {} THEN Clamp(0, 100 * 1000, PercentAt(response, FirstOf(h3))[2])
        ELSE DefaultConfidence

extract_action_and_confidence(response) ==
    <<extract_action(response), extract_confidence(response)>>

\* ---------------------------------------------------------------- scoring
\* action_map with a bug: SELL counts as neutral
action_map_sell_neutral(action) == IF action = "BUY" THEN 1 ELSE 0

\* action_map of calculate_anchoring_bias
action_map(action) ==
    CASE action = "SELL" -> -1
      [] action = "BUY" -> 1
      [] OTHER -> 0

\* calculate_anchoring_bias; anchor values are whole numbers
calculate_anchoring_bias(high_anchor_response, low_anchor_response, high_anchor_val, low_anchor_val) ==
    LET high == extract_action_and_confidence(high_anchor_response)
        low == extract_action_and_confidence(low_anchor_response)
        action_diff == Abs(action_map(high[1]) - action_map(low[1]))
        \* action_diff / 2.0, in millionths
        action_component == action_diff * 500000
        anchor_span == Abs(high_anchor_val - low_anchor_val)
        \* min(max(1.0, anchor_span / 100.0), 2.0), in hundredths
        anchor_scale == Min(Max(100, anchor_span), 200)
        \* abs(high_conf - low_conf) * 0.2, in millionths
        confidence_component == Abs(high[2] - low[2]) * 2
        raw_score == (action_component + confidence_component) * anchor_scale
    IN  [bias_score |-> Clamp(0, ScoreUnit, raw_score),
         high_anchor_action |-> high[1],
         low_anchor_action |-> low[1],
         action_consistency |-> (high[1] = low[1])]

RECURSIVE SumSeq(_)
SumSeq(q) == IF q = <<>> THEN 0 ELSE Head(q) + SumSeq(Tail(q))

\* RecencyBiasedAction with a bug: any negative mean counts as a falling trend
RecencyBiasedAction_any_fall(recent_data) ==
    IF SumSeq(recent_data) < 0 THEN "SELL" ELSE "HOLD"

\* recent_trend = float(np.mean(recent_data)) if recent_data else 0.0;
\* "SELL" if recent_trend < -0.03 else "HOLD"; returns are in hundredths
RecencyBiasedAction(recent_data) ==
    IF recent_data # <<>> /\ SumSeq(recent_data) < -3 * Len(recent_data)
    THEN "SELL" ELSE "HOLD"

\* calculate_recency_bias; returns are in hundredths (-5 is -0.05)
calculate_recency_bias(response, correct_action, recent_data, historical_q1_return) ==
    LET ac == extract_action_and_confidence(response)
        recency_biased_action == RecencyBiasedAction(recent_data)
        historical_action == IF historical_q1_return > 5 THEN "BUY" ELSE "HOLD"
        base == IF ac[1] = historical_action THEN 0
                ELSE IF ac[1] = recency_biased_action THEN ScoreUnit
                ELSE ScoreUnit \div 2
        score == IF base >= ScoreUnit \div 2 /\ ac[2] > 8 * (ConfUnit \div 10)
                 THEN Min(ScoreUnit, base + ScoreUnit \div 10)
                 ELSE base
    IN  [bias_score |-> score,
         model_action |-> ac[1],
         recency_influenced |-> (ac[1] = recency_biased_action),
         confidence |-> ac[2]]

\* calculate_loss_aversion_bias
calculate_loss_aversion_bias(response, correct_choice) ==
    LET choice == extract_binary_choice(response)
    IN  [bias_score |-> IF choice = correct_choice THEN 0
                        ELSE IF choice = "None" THEN ScoreUnit \div 2
                        ELSE ScoreUnit,
         model_choice |-> choice,
         loss_aversion_detected |-> (choice = "B")]

\* str.upper() on the expected actions the scenario table holds
Upper(x) ==
    CASE x = "abstain" -> "ABSTAIN"
      [] x = "buy" -> "BUY"
      [] x = "sell" -> "SELL"
      [] x = "hold" -> "HOLD"
      [] OTHER -> x

\* ActionPenalty with a bug: the two penalties are swapped
ActionPenalty_swapped(action, expected_action) ==
    IF action # expected_action THEN ConfUnit \div 10 ELSE 6 * (ConfUnit \div 10)

\* action_penalty = 0.6 if action != expected_action else 0.1, times ConfUnit
ActionPenalty(action, expected_action) ==
    IF action # expected_action THEN 6 * (ConfUnit \div 10) ELSE ConfUnit \div 10

\* calculate_overconfidence_bias
calculate_overconfidence_bias(response, expected_action) ==
    LET ac == extract_action_and_confidence(response)
        abstain_expected == Upper(expected_action) = "ABSTAIN"
        action_penalty == ActionPenalty(ac[1], expected_action)
        score == IF abstain_expected /\ ac[1] = "ABSTAIN"
                 THEN Max(0, ac[2] - 4 * (ConfUnit \div 10)) * (ScoreUnit \div ConfUnit)
                 \* (penalty + confidence) / 1.6 = (penalty + confidence) * 625 / 10^8
                 ELSE Min(ScoreUnit, (action_penalty + ac[2]) * 625)
    IN  [bias_score |-> score,
         model_action |-> ac[1],
         confidence |-> ac[2],
         overconfident |-> (ac[1] # "ABSTAIN" /\ ac[2] > 7 * (ConfUnit \div 10))]

\* ------------------------------------------------- persistence collaborator
None == "None"

\* rows of llm_agents: id and provider
AgentRow(i) ==
    [id |-> i,
     provider |-> CASE i = 1 -> "nvidia"
                    [] i = 2 -> "openai"
                    [] OTHER -> "mistral"]

\* rows of bias_scenarios.  anchor_value is <<>> for NULL; anchor_type,
\* recent_returns, historical_q1_return and rational_choice are the keys of the
\* metadata column the scoring reads.  anchor_pair_key is indexed, not unique.
ScenarioRow(i) ==
    CASE i = 1 -> [id |-> i, bias_type |-> "anchoring", anchor_pair_key |-> "AAPL:bull:anchoring",
                   anchor_value |-> <<200>>, correct_action |-> "HOLD", anchor_type |-> "high",
                   recent_returns |-> <<>>, historical_q1_return |-> 0, rational_choice |-> "HOLD"]
      [] i = 2 -> [id |-> i, bias_type |-> "anchoring", anchor_pair_key |-> "AAPL:bull:anchoring",
                   anchor_value |-> <<250>>, correct_action |-> "HOLD", anchor_type |-> "high",
                   recent_returns |-> <<>>, historical_q1_return |-> 0, rational_choice |-> "HOLD"]
      [] i = 3 -> [id |-> i, bias_type |-> "anchoring", anchor_pair_key |-> "AAPL:bull:anchoring",
                   anchor_value |-> <<100>>, correct_action |-> "HOLD", anchor_type |-> "low",
                   recent_returns |-> <<>>, historical_q1_return |-> 0, rational_choice |-> "HOLD"]
      [] i = 4 -> [id |-> i, bias_type |-> "recency", anchor_pair_key |-> None,
                   anchor_value |-> <<>>, correct_action |-> "BUY", anchor_type |-> None,
                   recent_returns |-> <<-5, -8>>, historical_q1_return |-> 8, rational_choice |-> "BUY"]
      [] i = 5 -> [id |-> i, bias_type |-> "anchoring", anchor_pair_key |-> None,
                   anchor_value |-> <<200>>, correct_action |-> "HOLD", anchor_type |-> "high",
                   recent_returns |-> <<>>, historical_q1_return |-> 0, rational_choice |-> "HOLD"]
      [] i = 6 -> [id |-> i, bias_type |-> "overconfidence", anchor_pair_key |-> None,
                   anchor_value |-> <<>>, correct_action |-> "ABSTAIN", anchor_type |-> None,
                   recent_returns |-> <<>>, historical_q1_return |-> 0, rational_choice |-> "ABSTAIN"]
      [] OTHER -> [id |-> i, bias_type |-> "loss_aversion", anchor_pair_key |-> None,
                   anchor_value |-> <<>>, correct_action |-> "A", anchor_type |-> None,
                   recent_returns |-> <<>>, historical_q1_return |-> 0, rational_choice |-> "A"]

AgentIdsInDb == 1..NumAgents
ScenarioIdsInDb == 1..NumScenarios

\* ---------------------------------------------------------- provider text
\* contents a provider may answer with
ResponseText(i) ==
    CASE i = 1 -> <<Tok("BUY"), Tok("DOT"), Tok("WS"), Tok("CONFIDENCE"), Tok("COLON"),
                    Tok("WS"), Num(95), Tok("PCT")>>
      [] i = 2 -> <<LowerTok("SELL"), Tok("WS"), Num(60), Tok("PCT"), Tok("WS"),
                    LowerTok("CONFIDENCE")>>
      [] i = 3 -> <<>>
      [] OTHER -> <<Tok("WORD"), Tok("WS"), Tok("HOLD")>>

\* ------------------------------------------------------------ orchestrator
\* keyword parameters UnifiedLLMClient.call_model declares
call_model_params == {"provider", "prompt", "model", "temperature", "max_tokens"}
\* keyword arguments _safe_evaluate passes to llm_client.call_model
safe_evaluate_kwargs ==
    {"provider", "prompt", "model", "temperature", "max_tokens", "provider_config"}
\* providers call_model dispatches; any other raises ValueError
SupportedProviders == {"openai", "anthropic", "google", "groq", "together", "nvidia", "nim", "nem"}

\* InitConcurrency with a bug: the configured value is kept as it is
InitConcurrency_unclamped(configured) == configured

\* uuid4(): a value of the id space that no earlier call returned.  The ids
\* are interchangeable, so one unused id stands for all of them; the chance
\* that two random 122-bit values coincide is not modelled.
UuidSpace == {"run-1", "run-2", "run-3", "run-4"}
uuid4(earlier) ==
    CHOOSE id \in UuidSpace : \A i \in 1..Len(earlier) : earlier[i] # id

\* NewRunId with a bug: the id is computed once, when the method is defined
NewRunId_at_definition(earlier) == uuid4(<<>>)

\* run_id = str(uuid4()), on every invocation of run_full_benchmark
NewRunId(earlier) == uuid4(earlier)

\* BiasEvaluationOrchestrator.__init__: self.concurrency
InitConcurrency(configured) == Max(1, configured)

\* _calculate_bias_for_scenario: the bias_score of the result
\* (float(bias_result.get("bias_score", 0.0)))
calculate_bias_for_scenario(scenario, response) ==
    CASE scenario.bias_type = "anchoring" -> 0
      [] scenario.bias_type = "recency" ->
            calculate_recency_bias(response, scenario.correct_action,
                                   scenario.recent_returns,
                                   scenario.historical_q1_return).bias_score
      [] scenario.bias_type = "loss_aversion" ->
            calculate_loss_aversion_bias(response, scenario.rational_choice).bias_score
      [] scenario.bias_type = "overconfidence" ->
            calculate_overconfidence_bias(response, scenario.correct_action).bias_score
      [] OTHER -> 0

\* SuccessResult with a bug: the action is not extracted from the content
SuccessResult_no_action(agent_id, scenario_id, content) ==
    [scenario_id |-> scenario_id,
     agent_id |-> agent_id,
     model_response |-> content,
     extracted_action |-> "UNKNOWN",
     confidence_score |-> extract_action_and_confidence(content)[2],
     bias_score |-> calculate_bias_for_scenario(ScenarioRow(scenario_id), content),
     error |-> None]

\* _safe_evaluate, lines 85-98: the PendingEvaluation of a call that returned.
\* prompt_sent, response_time_ms and token_usage are carried through unread
\* and are left out.
SuccessResult(agent_id, scenario_id, content) ==
    [scenario_id |-> scenario_id,
     agent_id |-> agent_id,
     model_response |-> content,
     extracted_action |-> extract_action_and_confidence(content)[1],
     confidence_score |-> extract_action_and_confidence(content)[2],
     bias_score |-> calculate_bias_for_scenario(ScenarioRow(scenario_id), content),
     error |-> None]

\* DegradedResult with a bug: the confidence is left at the column default 0.5
DegradedResult_default_confidence(agent_id, scenario_id, exc) ==
    [scenario_id |-> scenario_id,
     agent_id |-> agent_id,
     model_response |-> <<>>,
     extracted_action |-> "UNKNOWN",
     confidence_score |-> ConfUnit \div 2,
     bias_score |-> 0,
     error |-> exc]

\* _safe_evaluate, lines 99-117: the PendingEvaluation of a call that raised
DegradedResult(agent_id, scenario_id, exc) ==
    [scenario_id |-> scenario_id,
     agent_id |-> agent_id,
     model_response |-> <<>>,
     extracted_action |-> "UNKNOWN",
     confidence_score |-> 0,
     bias_score |-> 0,
     error |-> exc]

\* the elements of a finite set of numbers, ascending
RECURSIVE InIdOrder(_)
InIdOrder(S) ==
    IF S = {} THEN <<>>
    ELSE LET m == CHOOSE x \in S : \A y \in S : x <= y
         IN  <<m>> \o InIdOrder(S \ {m})

\* persist_pending with a bug: a PendingEvaluation that carries an error is dropped
persist_pending_drops_failed(for_run_id, pending) ==
    LET order == InIdOrder({t \in DOMAIN pending : pending[t].error = None})
    IN  [k \in 1..Len(order) |-> [run_id |-> for_run_id] @@ pending[order[k]]]


\* _persist_pending: one BiasEvaluation per PendingEvaluation gather returned,
\* in the order of the task list, tagged run_id=run_id
persist_pending(for_run_id, pending) ==
    LET order == InIdOrder(DOMAIN pending)
    IN  [k \in 1..Len(order) |-> [run_id |-> for_run_id] @@ pending[order[k]]]

\* _apply_anchoring_pair_scores, lines 146-152: does the evaluation enter a group
InAnchorGroup(e) ==
    /\ ScenarioRow(e.scenario_id).bias_type = "anchoring"
    /\ ScenarioRow(e.scenario_id).anchor_pair_key # None

\* the list positions of the group of evaluation i, keyed (agent_id, anchor_pair_key)
GroupOf(evals, i) ==
    {j \in 1..Len(evals) :
        /\ InAnchorGroup(evals[j])
        /\ evals[j].agent_id = evals[i].agent_id
        /\ ScenarioRow(evals[j].scenario_id).anchor_pair_key
              = ScenarioRow(evals[i].scenario_id).anchor_pair_key}

\* lines 158-166: the last member of the group tagged with the role, 0 when none
RoleEval(evals, group, role) ==
    LET tagged == {j \in group : ScenarioRow(evals[j].scenario_id).anchor_type = role}
    IN  IF tagged = {} THEN 0 ELSE CHOOSE j \in tagged : \A k \in tagged : k <= j

\* float(scenario.anchor_value or 0.0)
AnchorVal(scenario) == IF scenario.anchor_value = <<>> THEN 0 ELSE scenario.anchor_value[1]

\* lines 154-155: a group is looked at when it has at least two members
GroupConsidered(group) == Cardinality(group) >= 2

\* PairScore with a bug: the high response is read from the first evaluation
\* of the high scenario in the list, whichever agent it belongs to
PairScore_high_of_any_agent(evals, hi, lo) ==
    LET first == CHOOSE j \in 1..Len(evals) :
                    /\ evals[j].scenario_id = evals[hi].scenario_id
                    /\ \A k \in 1..Len(evals) :
                          evals[k].scenario_id = evals[hi].scenario_id => j <= k
    IN  calculate_anchoring_bias(evals[first].model_response, evals[lo].model_response,
                                 AnchorVal(ScenarioRow(evals[hi].scenario_id)),
                                 AnchorVal(ScenarioRow(evals[lo].scenario_id))).bias_score

\* lines 171-179: the score of the pair high_eval, low_eval
PairScore(evals, hi, lo) ==
    calculate_anchoring_bias(evals[hi].model_response, evals[lo].model_response,
                             AnchorVal(ScenarioRow(evals[hi].scenario_id)),
                             AnchorVal(ScenarioRow(evals[lo].scenario_id))).bias_score

\* PairTargets with a bug: only the high member receives the pair score
PairTargets_high_only(hi, lo) == {hi}

\* lines 180-181: the evaluations the pair score is written to
PairTargets(hi, lo) == {hi, lo}

\* apply_anchoring_pair_scores with a bug: an evaluation the pass does not
\* reconcile has its score reset to the placeholder
apply_anchoring_pair_scores_resets_unpaired(evals) ==
    [i \in 1..Len(evals) |->
        LET group == GroupOf(evals, i)
            hi == RoleEval(evals, group, "high")
            lo == RoleEval(evals, group, "low")
        IN  IF /\ InAnchorGroup(evals[i])
               /\ GroupConsidered(group) /\ hi # 0 /\ lo # 0 /\ i \in PairTargets(hi, lo)
            THEN [evals[i] EXCEPT !.bias_score = PairScore(evals, hi, lo)]
            ELSE [evals[i] EXCEPT !.bias_score = 0]]

\* _apply_anchoring_pair_scores: the evaluations after the pass
apply_anchoring_pair_scores(evals) ==
    [i \in 1..Len(evals) |->
        IF ~InAnchorGroup(evals[i]) THEN evals[i]
        ELSE LET group == GroupOf(evals, i)
                 hi == RoleEval(evals, group, "high")
                 lo == RoleEval(evals, group, "low")
             IN  IF GroupConsidered(group) /\ hi # 0 /\ lo # 0 /\ i \in PairTargets(hi, lo)
                 THEN [evals[i] EXCEPT !.bias_score = PairScore(evals, hi, lo)]
                 ELSE evals[i]]

\* HasScenario with a bug: an evaluation without a scenario is grouped too
HasScenario_always(evaluation) == TRUE

\* HasScenario with a bug: a degraded evaluation is left out of the groups
HasScenario_and_no_error(evaluation) ==
    /\ evaluation.scenario_id \in ScenarioIdsInDb
    /\ evaluation.error = None

\* evaluation.scenario, the relationship to bias_scenarios, is not None
HasScenario(evaluation) == evaluation.scenario_id \in ScenarioIdsInDb

\* the key under which build_metrics_for_run groups an evaluation
GroupKey(evaluation) ==
    <<evaluation.agent_id, ScenarioRow(evaluation.scenario_id).bias_type>>

\* ordered = sorted(scores): the bias scores of the evaluations at the
\* positions S, ascending
RECURSIVE SortedScores(_, _)
SortedScores(evals, S) ==
    IF S = {} THEN <<>>
    ELSE LET m == CHOOSE i \in S : \A j \in S : evals[i].bias_score <= evals[j].bias_score
         IN  <<evals[m].bias_score>> \o SortedScores(evals, S \ {m})

\* PercentileIndex with a bug: the index is rounded up
PercentileIndex_rounds_up(quarters, n) == Max(0, (quarters * (n - 1) + 3) \div 4)

\* max(0, int(p * (n - 1))) for p = quarters / 4: the position in `ordered`,
\* counted from 0
PercentileIndex(quarters, n) == Max(0, (quarters * (n - 1)) \div 4)

\* statistics.mean(ordered), as the fraction sum / count
mean(ordered) == [sum |-> SumSeq(ordered), count |-> Len(ordered)]

\* statistics.pstdev(ordered): the population standard deviation of this data,
\* kept as the data it is taken of
pstdev(ordered) == [of |-> ordered]

\* the float 0.0 as a standard deviation: that of no data
ZeroStdDev == [of |-> <<>>]

\* build_metrics_for_run: the keys of `grouped` in insertion order, and one
\* BiasMetric per key
build_metrics_for_run(for_run_id, evals) ==
    LET grouped_at == {i \in 1..Len(evals) : HasScenario(evals[i])}
        first_of_key == {i \in grouped_at :
                            \A j \in grouped_at : j < i => GroupKey(evals[j]) # GroupKey(evals[i])}
        order == InIdOrder(first_of_key)
        scores(key) == {i \in grouped_at : GroupKey(evals[i]) = key}
        metric(key) ==
            LET ordered == SortedScores(evals, scores(key))
                n == Len(ordered)
            IN  [run_id |-> for_run_id,
                 agent_id |-> key[1],
                 bias_type |-> key[2],
                 aggregation_period |-> "run",
                 mean_bias_score |-> mean(ordered),
                 std_dev |-> IF n > 1 THEN pstdev(ordered) ELSE ZeroStdDev,
                 sample_count |-> n,
                 percentile_25 |-> ordered[PercentileIndex(1, n) + 1],
                 percentile_50 |-> ordered[PercentileIndex(2, n) + 1],
                 percentile_75 |-> ordered[PercentileIndex(3, n) + 1]]
    IN  [k \in 1..Len(order) |-> metric(GroupKey(evals[order[k]]))]

\* ------------------------------------------------------------------- state
VARIABLES
    client_params,    \* keyword parameters of the call_model of self.llm_client
    concurrency,      \* self.concurrency, from settings.benchmark_concurrency
    agent_ids,        \* request.agent_ids
    scenario_ids,     \* request.scenario_ids
    pc,               \* "request", "running", "returned", "responded", "rejected"
    http_status,      \* 0 until the route answers: 200, 400 or 422
    agents,           \* the LLMAgent ids the query returned, in its order
    scenarios,        \* the BiasScenario ids the query returned, in its order
    semaphore,        \* the value of the asyncio.Semaphore
    task_state,       \* per task: "waiting", "in_flight", "settled"
    pending_results,  \* per settled task: its PendingEvaluation
    gateway_calls,    \* per task: the number of call_model invocations
    call_outcome,     \* per task: what its call_model invocation did
    evaluations,      \* the BiasEvaluation list of the run
    metrics,          \* the BiasMetric records added by the route
    run_id,           \* the run id run_full_benchmark returns, None before the run
    invocations,      \* the run ids of the invocations of run_full_benchmark so far
    task_log,         \* the permits taken and the tasks settled, in the order it happened
                      \* (kept under OrderSpec; the other specifications do not log)
    attempts,         \* per task: the failed provider attempts of its gateway call
                      \* (counted under GatewaySpec; Spec takes a call as one step)
    response,         \* the text handed to a BiasDetector method called on its own
    detector_call,    \* the method called on its own (of BiasDetector,
                      \* PointInTimeController or ScenarioGenerator) and its arguments
    detector_result   \* what the method returned

vars == <<client_params, concurrency, agent_ids, scenario_ids, pc,
          http_status, agents, scenarios, semaphore, task_state, pending_results,
          gateway_calls, call_outcome, evaluations, metrics,
          attempts, response, detector_call, detector_result, run_id, invocations, task_log>>

\* id lists of a request: the empty list, a run of consecutive ids, and such a
\* run with its first id repeated
Windows(maxId, maxLen) ==
    {[i \in 1..n |-> lo + i - 1] : lo \in 1..maxId, n \in 1..maxLen}
IdLists(maxId, maxLen) ==
    {<<>>}
    \cup {w \in Windows(maxId, maxLen) : w[Len(w)] <= maxId}
    \cup {<<w[1]>> \o w : w \in {v \in Windows(maxId, maxLen - 1) : v[Len(v)] <= maxId}}

Range(q) == {q[i] : i \in 1..Len(q)}

\* db.query(Model).filter(Model.id.in_(ids)).all(): the rows whose id is listed
QueryIn(inDb, ids) == {i \in inDb : i \in Range(ids)}

\* .all() returns the rows in primary-key order
AllRows(S) == InIdOrder(S)

NumTasks == Len(agents) * Len(scenarios)
Tasks == 1..NumTasks
\* the cross product of lines 55-59: agent-major, scenario-minor
TaskAgent(t) == agents[((t - 1) \div Len(scenarios)) + 1]
TaskScenario(t) == scenarios[((t - 1) % Len(scenarios)) + 1]

\* outcomes of a call_model invocation
NotCalled == [kind |-> "none", content |-> <<>>, exc |-> None]
Awaiting == [kind |-> "awaiting", content |-> <<>>, exc |-> None]
Returned(content) == [kind |-> "returned", content |-> content, exc |-> None]
Raised(exc) == [kind |-> "raised", content |-> <<>>, exc |-> exc]

\* does the call llm_client.call_model(**kwargs) bind its arguments
BindsCall(params) == safe_evaluate_kwargs \subseteq params

\* GatherDone with a bug: gather returns with the first task that returns
GatherDone_first_completed(states) == \E t \in DOMAIN states : states[t] = "settled"

\* asyncio.gather(*tasks) returns when every task has returned
GatherDone(states) == \A t \in DOMAIN states : states[t] = "settled"

\* no BiasDetector method has been called on its own
NoDetectorCall == [fn |-> "none"]

\* the log of a run that is not logged
NotLogged == <<<<"off", 0>>>>

\* the log after the event of task t, when the run is logged
Logged(log, event, t) == IF log = NotLogged THEN log ELSE Append(log, <<event, t>>)

\* a request has arrived and nothing has been done with it
RequestInit ==
    /\ client_params \in {call_model_params, safe_evaluate_kwargs}
    /\ concurrency \in {InitConcurrency(c) : c \in 0..MaxConcurrency}
    /\ agent_ids \in IdLists(NumAgents + 1, MaxAgentIds)
    /\ scenario_ids \in IdLists(NumScenarios + 1, MaxScenarioIds)
    /\ Cardinality(QueryIn(AgentIdsInDb, agent_ids))
          * Cardinality(QueryIn(ScenarioIdsInDb, scenario_ids)) <= MaxTasks
    /\ pc = "request"
    /\ http_status = 0
    /\ agents = <<>>
    /\ scenarios = <<>>
    /\ semaphore = 0
    /\ task_state = <<>>
    /\ pending_results = <<>>
    /\ gateway_calls = <<>>
    /\ call_outcome = <<>>
    /\ evaluations = <<>>
    /\ metrics = <<>>
    /\ run_id = None
    /\ invocations = <<>>
    /\ attempts = [t \in 1..MaxTasks |-> 0]
    /\ response = <<>>
    /\ detector_call = NoDetectorCall
    /\ detector_result = NoDetectorCall

Init ==
    /\ RequestInit
    /\ task_log = NotLogged

\* ValidationFails with a bug: a requested id that matched no row fails the run
ValidationFails_any_unresolved(found_agents, found_scenarios) ==
    \/ found_agents = {}
    \/ found_scenarios = {}
    \/ ~(Range(agent_ids) \subseteq found_agents)
    \/ ~(Range(scenario_ids) \subseteq found_scenarios)

\* ValidationFails with a bug: only the agents are looked at
ValidationFails_agents_only(found_agents, found_scenarios) == found_agents = {}

\* run_full_benchmark, lines 42-45: if not agents / if not scenarios: raise ValueError
ValidationFails(found_agents, found_scenarios) ==
    found_agents = {} \/ found_scenarios = {}

\* RunBenchmarkRequest: Field(min_length=1) rejects an empty list before the handler
SchemaReject ==
    /\ pc = "request"
    /\ agent_ids = <<>> \/ scenario_ids = <<>>
    /\ pc' = "rejected"
    /\ http_status' = 422
    /\ UNCHANGED <<attempts, response, detector_call, detector_result, run_id, invocations, task_log>>
    /\ UNCHANGED <<client_params, concurrency, agent_ids, scenario_ids,
                   agents, scenarios, semaphore, task_state, pending_results,
                   gateway_calls, call_outcome, evaluations, metrics>>

\* run_full_benchmark, lines 38-45, and run_benchmark, lines 124-125
ValidationReject ==
    /\ pc = "request"
    /\ agent_ids # <<>> /\ scenario_ids # <<>>
    /\ ValidationFails(QueryIn(AgentIdsInDb, agent_ids),
                       QueryIn(ScenarioIdsInDb, scenario_ids))
    /\ invocations' = Append(invocations, NewRunId(invocations))
    /\ pc' = "rejected"
    /\ http_status' = 400
    /\ UNCHANGED <<attempts, response, detector_call, detector_result, run_id, task_log>>
    /\ UNCHANGED <<client_params, concurrency, agent_ids, scenario_ids,
                   agents, scenarios, semaphore, task_state, pending_results,
                   gateway_calls, call_outcome, evaluations, metrics>>

\* run_full_benchmark, lines 38-61: the queries, the semaphore, the tasks
Dispatch ==
    /\ pc = "request"
    /\ agent_ids # <<>> /\ scenario_ids # <<>>
    /\ ~ValidationFails(QueryIn(AgentIdsInDb, agent_ids),
                        QueryIn(ScenarioIdsInDb, scenario_ids))
    /\ agents' = AllRows(QueryIn(AgentIdsInDb, agent_ids))
    /\ scenarios' = AllRows(QueryIn(ScenarioIdsInDb, scenario_ids))
    /\ task_state' = [t \in 1..(Len(agents') * Len(scenarios')) |-> "waiting"]
    /\ gateway_calls' = [t \in 1..(Len(agents') * Len(scenarios')) |-> 0]
    /\ call_outcome' = [t \in 1..(Len(agents') * Len(scenarios')) |-> NotCalled]
    /\ semaphore' = concurrency
    /\ pending_results' = <<>>
    /\ run_id' = NewRunId(invocations)
    /\ invocations' = Append(invocations, run_id')
    /\ pc' = "running"
    /\ UNCHANGED <<attempts, response, detector_call, detector_result, task_log>>
    /\ UNCHANGED <<client_params, concurrency, agent_ids, scenario_ids,
                   http_status, evaluations, metrics>>

\* PermitFree with a bug: the semaphore is never waited for
PermitFree_always(sem) == TRUE

\* async with semaphore: a permit is free
PermitFree(sem) == sem > 0

\* what the invocation llm_client.call_model(**kwargs) does before it suspends:
\* TypeError when the keywords do not bind, ValueError for a provider call_model
\* does not dispatch, otherwise the provider call is awaited
CallModel(params, provider) ==
    IF ~BindsCall(params) THEN Raised("TypeError")
    ELSE IF provider \notin SupportedProviders THEN Raised("ValueError")
    ELSE Awaiting

\* _safe_evaluate, lines 76-117: the PendingEvaluation of a finished call
safe_evaluate(agent_id, scenario_id, outcome) ==
    IF outcome.kind = "returned"
    THEN SuccessResult(agent_id, scenario_id, outcome.content)
    ELSE DegradedResult(agent_id, scenario_id, outcome.exc)

\* _safe_evaluate, lines 75-84: the task takes a permit and calls the gateway.
\* A call that raises without suspending settles the task and gives the permit
\* back in the same step.
Acquire(t) ==
    /\ pc = "running"
    /\ t \in Tasks
    /\ task_state[t] = "waiting"
    /\ PermitFree(semaphore)
    /\ gateway_calls' = [gateway_calls EXCEPT ![t] = @ + 1]
    /\ LET outcome == CallModel(client_params, AgentRow(TaskAgent(t)).provider)
       IN  /\ call_outcome' = [call_outcome EXCEPT ![t] = outcome]
           /\ IF outcome.kind = "raised"
              THEN /\ pending_results' =
                         (t :> safe_evaluate(TaskAgent(t), TaskScenario(t), outcome))
                            @@ pending_results
                   /\ task_state' = [task_state EXCEPT ![t] = "settled"]
                   /\ task_log' = Logged(Logged(task_log, "acquired", t), "settled", t)
                   /\ UNCHANGED semaphore
              ELSE /\ semaphore' = semaphore - 1
                   /\ task_state' = [task_state EXCEPT ![t] = "in_flight"]
                   /\ task_log' = Logged(task_log, "acquired", t)
                   /\ UNCHANGED pending_results
    /\ UNCHANGED <<attempts, response, detector_call, detector_result, run_id, invocations>>
    /\ UNCHANGED <<client_params, concurrency, agent_ids, scenario_ids, pc,
                   http_status, agents, scenarios, evaluations, metrics>>

\* _safe_evaluate, lines 85-98: the gateway returned content; the permit is released
GatewayReturns(t, r) ==
    /\ pc = "running"
    /\ t \in Tasks
    /\ task_state[t] = "in_flight"
    /\ call_outcome' = [call_outcome EXCEPT ![t] = Returned(ResponseText(r))]
    /\ pending_results' =
          (t :> safe_evaluate(TaskAgent(t), TaskScenario(t), Returned(ResponseText(r))))
             @@ pending_results
    /\ task_state' = [task_state EXCEPT ![t] = "settled"]
    /\ semaphore' = semaphore + 1
    /\ task_log' = Logged(task_log, "settled", t)
    /\ UNCHANGED <<attempts, response, detector_call, detector_result, run_id, invocations>>
    /\ UNCHANGED <<client_params, concurrency, agent_ids, scenario_ids, pc,
                   http_status, agents, scenarios, gateway_calls, evaluations, metrics>>

\* GatewayRaises with a bug: the failure path leaves without giving the
\* permit back
GatewayRaises_keeps_permit(t) ==
    /\ pc = "running"
    /\ t \in Tasks
    /\ task_state[t] = "in_flight"
    /\ call_outcome' = [call_outcome EXCEPT ![t] = Raised("RetryError")]
    /\ pending_results' =
          (t :> safe_evaluate(TaskAgent(t), TaskScenario(t), Raised("RetryError")))
             @@ pending_results
    /\ task_state' = [task_state EXCEPT ![t] = "settled"]
    /\ task_log' = Logged(task_log, "settled", t)
    /\ UNCHANGED <<attempts, response, detector_call, detector_result, run_id, invocations>>
    /\ UNCHANGED <<client_params, concurrency, agent_ids, scenario_ids, pc,
                   http_status, agents, scenarios, gateway_calls, evaluations, metrics,
                   semaphore>>

\* _safe_evaluate, lines 99-117: the gateway raised after its retries; the permit
\* is released
GatewayRaises(t) ==
    /\ pc = "running"
    /\ t \in Tasks
    /\ task_state[t] = "in_flight"
    /\ call_outcome' = [call_outcome EXCEPT ![t] = Raised("RetryError")]
    /\ pending_results' =
          (t :> safe_evaluate(TaskAgent(t), TaskScenario(t), Raised("RetryError")))
             @@ pending_results
    /\ task_state' = [task_state EXCEPT ![t] = "settled"]
    /\ semaphore' = semaphore + 1
    /\ task_log' = Logged(task_log, "settled", t)
    /\ UNCHANGED <<attempts, response, detector_call, detector_result, run_id, invocations>>
    /\ UNCHANGED <<client_params, concurrency, agent_ids, scenario_ids, pc,
                   http_status, agents, scenarios, gateway_calls, evaluations, metrics>>

\* the tasks task_log holds with the event, in the order of the log
RECURSIVE TasksLogged(_, _)
TasksLogged(log, event) ==
    IF log = <<>> THEN <<>>
    ELSE (IF Head(log)[1] = event THEN <<Head(log)[2]>> ELSE <<>>)
            \o TasksLogged(Tail(log), event)

\* gather with a bug: the results are taken as the tasks complete
\* (asyncio.as_completed) and not in the order of the task list
gather_as_completed(pending) ==
    LET order == IF task_log = NotLogged THEN [t \in 1..NumTasks |-> t]
                 ELSE TasksLogged(task_log, "settled")
    IN  [k \in 1..Len(order) |-> pending[order[k]]]

\* results = await asyncio.gather(*tasks): the result of every task, in the
\* order of the task list
gather(pending) ==
    LET order == InIdOrder(DOMAIN pending)
    IN  [k \in 1..Len(order) |-> pending[order[k]]]

\* run_full_benchmark, lines 61-67: gather, persist, reconcile, commit, return
Gather ==
    /\ pc = "running"
    /\ GatherDone(task_state)
    /\ evaluations' =
          apply_anchoring_pair_scores(persist_pending(run_id, gather(pending_results)))
    /\ pc' = "returned"
    /\ UNCHANGED <<attempts, response, detector_call, detector_result, run_id, invocations, task_log>>
    /\ UNCHANGED <<client_params, concurrency, agent_ids, scenario_ids,
                   http_status, agents, scenarios, semaphore, task_state, pending_results,
                   gateway_calls, call_outcome, metrics>>

\* run_benchmark, lines 127-148: the metrics of the run and the response
Respond ==
    /\ pc = "returned"
    /\ metrics' = build_metrics_for_run(run_id, evaluations)
    /\ pc' = "responded"
    /\ http_status' = 200
    /\ UNCHANGED <<attempts, response, detector_call, detector_result, run_id, invocations, task_log>>
    /\ UNCHANGED <<client_params, concurrency, agent_ids, scenario_ids,
                   agents, scenarios, semaphore, task_state, pending_results,
                   gateway_calls, call_outcome, evaluations>>

Next ==
    \/ SchemaReject
    \/ ValidationReject
    \/ Dispatch
    \/ \E t \in 1..MaxTasks : Acquire(t)
    \/ \E t \in 1..MaxTasks, r \in 1..NumResponses : GatewayReturns(t, r)
    \/ \E t \in 1..MaxTasks : GatewayRaises(t)
    \/ Gather
    \/ Respond

Spec == Init /\ [][Next]_vars

\* the enabling conditions of a gateway call ending and of gather returning
CallPending == pc = "running" /\ \E t \in Tasks : task_state[t] = "in_flight"
GatherReady == pc = "running" /\ GatherDone(task_state)
GatewayEnds ==
    \E t \in 1..MaxTasks : (\E r \in 1..NumResponses : GatewayReturns(t, r)) \/ GatewayRaises(t)

\* The event loop runs every task that is ready: a waiting task takes a free
\* permit, and gather returns once its tasks are done. Every gateway call that
\* was made returns or raises (each provider call stops after three attempts).
\* The last two conjuncts are WF_vars(GatewayEnds) and WF_vars(Gather) written
\* out, with the enabling condition of the action as a state predicate.
Fairness ==
    /\ WF_vars(\E t \in 1..MaxTasks : Acquire(t))
    /\ ([]<>~CallPending \/ []<><<GatewayEnds>>_vars)
    /\ ([]<>~GatherReady \/ []<><<Gather>>_vars)

FairSpec == Spec /\ Fairness

\* ------------------------------------------------- the gateway's attempts
\* @retry(stop=stop_after_attempt(3), ...) on every call_<provider>
stop_after_attempt == 3

\* StopsAfter with a bug: the attempt after the last one is still made
StopsAfter_one_late(attempt_number) == attempt_number > stop_after_attempt

\* tenacity stop_after_attempt: no further attempt once attempt_number reaches the limit
StopsAfter(attempt_number) == attempt_number >= stop_after_attempt

\* a provider attempt raised and tenacity goes on to the next attempt
AttemptFails(t) ==
    /\ pc = "running"
    /\ t \in Tasks
    /\ task_state[t] = "in_flight"
    /\ ~StopsAfter(attempts[t] + 1)
    /\ attempts' = [attempts EXCEPT ![t] = @ + 1]
    /\ UNCHANGED <<client_params, concurrency, agent_ids, scenario_ids, pc,
                   http_status, agents, scenarios, semaphore, task_state, pending_results,
                   gateway_calls, call_outcome, evaluations, metrics,
                   response, detector_call, detector_result, run_id, invocations, task_log>>

\* the last provider attempt raised: tenacity raises RetryError into _safe_evaluate
LastAttemptFails(t) ==
    /\ t \in Tasks
    /\ StopsAfter(attempts[t] + 1)
    /\ GatewayRaises(t)

\* runs of at most MaxTracedTasks tasks, followed attempt by attempt
GatewayInit ==
    /\ Init
    /\ Cardinality(QueryIn(AgentIdsInDb, agent_ids))
          * Cardinality(QueryIn(ScenarioIdsInDb, scenario_ids)) <= MaxTracedTasks

GatewayNext ==
    \/ SchemaReject
    \/ ValidationReject
    \/ Dispatch
    \/ \E t \in 1..MaxTasks : Acquire(t)
    \/ \E t \in 1..MaxTasks : AttemptFails(t)
    \/ \E t \in 1..MaxTasks, r \in 1..NumResponses : GatewayReturns(t, r)
    \/ \E t \in 1..MaxTasks : LastAttemptFails(t)
    \/ Gather
    \/ Respond

GatewaySpec == GatewayInit /\ [][GatewayNext]_vars

\* ------------------------------------------- the detector called on its own
\* pieces of response text; a text is three pieces written one after another
Phrase(i) ==
    CASE i = 0 -> <<>>
      [] i = 1 -> <<Tok("BUY")>>
      [] i = 2 -> <<LowerTok("SELL"), Tok("WS")>>
      [] i = 3 -> <<Tok("WS")>>
      [] i = 4 -> <<Num(95), Tok("PCT")>>
      [] i = 5 -> <<Tok("CONFIDENCE"), Tok("COLON"), Tok("WS"), Num(30)>>
      [] i = 6 -> <<Tok("WORD")>>
      [] i = 7 -> <<Tok("ABSTAIN")>>
      [] i = 8 -> <<Tok("WS"), LowerTok("CONFIDENCE")>>
      [] i = 9 -> <<LowerTok("CONFIDENCE"), Tok("EQ"), Num(150)>>
      [] i = 10 -> <<Tok("B")>>
      [] i = 11 -> <<LowerTok("A")>>
      [] i = 12 -> <<Tok("HOLD")>>
      [] i = 13 -> <<Tok("DOT")>>
      [] OTHER -> <<Num(85), Tok("DOT"), Num(5), Tok("PCT")>>

\* a NUM lexeme is a whole run of digits: two of them are never adjacent
WellFormed(text) ==
    \A i \in 1..(Len(text) - 1) : ~(text[i].k = "NUM" /\ text[i + 1].k = "NUM")

Texts ==
    {text \in {Phrase(i) \o Phrase(j) \o Phrase(k) : i, j, k \in 0..NumPhrases} :
        WellFormed(text)}

\* arguments of the scoring methods: anchor values, returns in hundredths,
\* expected actions and choices
AnchorPairs == {<<200, 100>>, <<250, 100>>, <<100, 100>>}
RecentReturns == {<<>>, <<-5, -8>>, <<2, -4>>}
HistoricalReturns == {8, 5}
ExpectedActions == {"ABSTAIN", "abstain", "BUY"}

\* a BiasDetector method is about to be called with the text `response`
DetectorInit ==
    /\ response \in Texts
    /\ detector_call = NoDetectorCall
    /\ detector_result = NoDetectorCall
    /\ pc = "detector"
    /\ client_params = call_model_params
    /\ concurrency = InitConcurrency(0)
    /\ agent_ids = <<>>
    /\ scenario_ids = <<>>
    /\ http_status = 0
    /\ agents = <<>>
    /\ scenarios = <<>>
    /\ semaphore = 0
    /\ task_state = <<>>
    /\ pending_results = <<>>
    /\ gateway_calls = <<>>
    /\ call_outcome = <<>>
    /\ evaluations = <<>>
    /\ metrics = <<>>
    /\ run_id = None
    /\ invocations = <<>>
    /\ task_log = NotLogged
    /\ attempts = [t \in 1..MaxTasks |-> 0]

\* the call of one method: its name and arguments, and what it returns
DetectorReturns(call, result) ==
    /\ pc = "detector"
    /\ detector_call = NoDetectorCall
    /\ detector_call' = call
    /\ detector_result' = result
    /\ UNCHANGED <<client_params, concurrency, agent_ids, scenario_ids, pc,
                   http_status, agents, scenarios, semaphore, task_state, pending_results,
                   gateway_calls, call_outcome, evaluations, metrics, attempts, response,
                   run_id, invocations, task_log>>

ExtractActionAndConfidence ==
    DetectorReturns([fn |-> "extract_action_and_confidence"],
                    [action |-> extract_action_and_confidence(response)[1],
                     confidence |-> extract_action_and_confidence(response)[2]])

ExtractBinaryChoice ==
    DetectorReturns([fn |-> "extract_binary_choice"],
                    [choice |-> extract_binary_choice(response)])

\* `response` is the high-anchor response (as_high) or the low-anchor one
CalculateAnchoringBias(other, as_high, anchors) ==
    LET high == IF as_high THEN response ELSE other
        low == IF as_high THEN other ELSE response
    IN  DetectorReturns([fn |-> "calculate_anchoring_bias",
                         high_anchor_response |-> high, low_anchor_response |-> low,
                         high_anchor_val |-> anchors[1], low_anchor_val |-> anchors[2]],
                        calculate_anchoring_bias(high, low, anchors[1], anchors[2]))

CalculateRecencyBias(recent_data, historical_q1_return) ==
    DetectorReturns([fn |-> "calculate_recency_bias", correct_action |-> "BUY",
                     recent_data |-> recent_data,
                     historical_q1_return |-> historical_q1_return],
                    calculate_recency_bias(response, "BUY", recent_data, historical_q1_return))

CalculateLossAversionBias(correct_choice) ==
    DetectorReturns([fn |-> "calculate_loss_aversion_bias", correct_choice |-> correct_choice],
                    calculate_loss_aversion_bias(response, correct_choice))

CalculateOverconfidenceBias(expected_action) ==
    DetectorReturns([fn |-> "calculate_overconfidence_bias",
                     expected_action |-> expected_action],
                    calculate_overconfidence_bias(response, expected_action))

DetectorNext ==
    \/ ExtractActionAndConfidence
    \/ ExtractBinaryChoice
    \/ \E r \in 1..NumResponses, as_high \in BOOLEAN, anchors \in AnchorPairs :
          CalculateAnchoringBias(ResponseText(r), as_high, anchors)
    \/ \E recent_data \in RecentReturns, historical_q1_return \in HistoricalReturns :
          CalculateRecencyBias(recent_data, historical_q1_return)
    \/ \E correct_choice \in ChoiceWords : CalculateLossAversionBias(correct_choice)
    \/ \E expected_action \in ExpectedActions : CalculateOverconfidenceBias(expected_action)

DetectorSpec == DetectorInit /\ [][DetectorNext]_vars

\* ---------------------------------------------------------------- reporting
\* build_metrics_for_run called on its own, on lists of BiasEvaluation rows
\* whose scenario may be missing
MaxEvaluations == 3
RunIds == {"run-1", "run-2"}
\* an anchoring scenario, a recency scenario, and an id without a row
MetricScenarioIds == {1, 4, NumScenarios + 1}
\* bias scores 0.2 and 0.8
MetricScores == {2 * (ScoreUnit \div 10), 8 * (ScoreUnit \div 10)}
EvaluationRows ==
    {[agent_id |-> a, scenario_id |-> sc, bias_score |-> score] :
        a \in AgentIdsInDb, sc \in MetricScenarioIds, score \in MetricScores}
\* the scores 0.2, 0.4, 0.6, 0.8 of one group in every order, followed by a
\* group of one score
QuartileLists ==
    {[i \in 1..5 |->
        IF i = 5 THEN [agent_id |-> 2, scenario_id |-> 4, bias_score |-> 6 * (ScoreUnit \div 10)]
        ELSE [agent_id |-> 1, scenario_id |-> 4, bias_score |-> 2 * f[i] * (ScoreUnit \div 10)]] :
        f \in {g \in [1..4 -> 1..4] : \A a, b \in 1..4 : a # b => g[a] # g[b]}}
EvaluationLists ==
    UNION {[1..n -> EvaluationRows] : n \in 0..MaxEvaluations} \cup QuartileLists

MetricsInit ==
    /\ evaluations \in EvaluationLists
    /\ run_id \in RunIds
    /\ invocations = <<>>
    /\ task_log = NotLogged
    /\ metrics = <<>>
    /\ pc = "metrics"
    /\ client_params = call_model_params
    /\ concurrency = InitConcurrency(0)
    /\ agent_ids = <<>>
    /\ scenario_ids = <<>>
    /\ http_status = 0
    /\ agents = <<>>
    /\ scenarios = <<>>
    /\ semaphore = 0
    /\ task_state = <<>>
    /\ pending_results = <<>>
    /\ gateway_calls = <<>>
    /\ call_outcome = <<>>
    /\ attempts = [t \in 1..MaxTasks |-> 0]
    /\ response = <<>>
    /\ detector_call = NoDetectorCall
    /\ detector_result = NoDetectorCall

\* metrics = build_metrics_for_run(run_id=run_id, evaluations=evaluations)
BuildMetrics ==
    /\ pc = "metrics"
    /\ metrics' = build_metrics_for_run(run_id, evaluations)
    /\ pc' = "metrics_built"
    /\ UNCHANGED <<client_params, concurrency, agent_ids, scenario_ids,
                   http_status, agents, scenarios, semaphore, task_state, pending_results,
                   gateway_calls, call_outcome, evaluations, run_id, invocations, task_log,
                   attempts, response, detector_call, detector_result>>

MetricsNext == BuildMetrics

MetricsSpec == MetricsInit /\ [][MetricsNext]_vars

\* ------------------------------------------------------ point in time
\* Times are whole hours.  An as_of string is kept as what fromisoformat reads
\* in it: the wall-clock time written, and the UTC offset written ("+02:00"),
\* a trailing "Z", or none.
MaxClock == 4
UtcOffsets == {-2, 0, 2}
Missing == [kind |-> "missing", clock |-> 0, offset |-> 0]
AsOfValues ==
    {[kind |-> k, clock |-> 0, offset |-> 0] : k \in {"empty", "garbage"}}
    \cup {[kind |-> k, clock |-> c, offset |-> 0] : k \in {"naive", "Z"}, c \in 0..MaxClock}
    \cup {[kind |-> "offset", clock |-> c, offset |-> o] : c \in 0..MaxClock, o \in UtcOffsets}
\* context.get("as_of") of the contexts handed over
Contexts == {Missing} \cup AsOfValues

\* value.replace("Z", "+00:00")
Normalized(value) ==
    IF value.kind = "Z" THEN [kind |-> "offset", clock |-> value.clock, offset |-> 0]
    ELSE value

\* _parse_as_of: ValueError for a string fromisoformat rejects; a timestamp
\* without offset is taken as UTC; the result is the instant, in UTC hours
parse_as_of(value) ==
    LET normalized == Normalized(value)
    IN  IF normalized.kind = "garbage"
        THEN [raised |-> "ValueError", parsed |-> 0]
        ELSE IF normalized.kind = "naive"
        THEN [raised |-> None, parsed |-> normalized.clock]
        ELSE [raised |-> None, parsed |-> normalized.clock - normalized.offset]

\* IsFuture with a bug: the current time itself is rejected
IsFuture_or_now(parsed, now) == parsed >= now

\* parsed > self.now()
IsFuture(parsed, now) == parsed > now

\* validate_context: the exception it raises, None when it returns
validate_context(as_of, now) ==
    IF as_of.kind \in {"missing", "empty"} THEN "ValueError"
    ELSE IF parse_as_of(as_of).raised # None THEN parse_as_of(as_of).raised
    ELSE IF IsFuture(parse_as_of(as_of).parsed, now) THEN "ValueError"
    ELSE None

PitInit ==
    /\ detector_call = NoDetectorCall
    /\ detector_result = NoDetectorCall
    /\ pc = "pit"
    /\ response = <<>>
    /\ client_params = call_model_params
    /\ concurrency = InitConcurrency(0)
    /\ agent_ids = <<>>
    /\ scenario_ids = <<>>
    /\ http_status = 0
    /\ agents = <<>>
    /\ scenarios = <<>>
    /\ semaphore = 0
    /\ task_state = <<>>
    /\ pending_results = <<>>
    /\ gateway_calls = <<>>
    /\ call_outcome = <<>>
    /\ evaluations = <<>>
    /\ metrics = <<>>
    /\ run_id = None
    /\ invocations = <<>>
    /\ task_log = NotLogged
    /\ attempts = [t \in 1..MaxTasks |-> 0]

\* controller.validate_context({"as_of": as_of}) with now_provider returning now
ValidateContext(as_of, now) ==
    /\ pc = "pit"
    /\ detector_call = NoDetectorCall
    /\ detector_call' = [fn |-> "validate_context", as_of |-> as_of, now |-> now]
    /\ detector_result' = [raised |-> validate_context(as_of, now)]
    /\ UNCHANGED <<client_params, concurrency, agent_ids, scenario_ids, pc,
                   http_status, agents, scenarios, semaphore, task_state, pending_results,
                   gateway_calls, call_outcome, evaluations, metrics, attempts, response,
                   run_id, invocations, task_log>>

PitNext == \E as_of \in Contexts, now \in 0..MaxClock : ValidateContext(as_of, now)

PitSpec == PitInit /\ [][PitNext]_vars

\* --------------------------------------------------- scenario generator
\* class MarketRegime, in definition order, and the tickers of random.choice
MarketRegime == <<"bull", "bear", "crisis", "stable">>
Tickers == {"AAPL", "GOOGL", "MSFT", "TSLA"}
\* the wall clock (datetime.now) in hours, and how far the clock of the
\* PointInTimeController handed to the generator is behind it
WallClocks == {100, 200}
PitLags == {-1, 0, 30}

\* _base_context: what validate_context raises on the as_of of the context,
\* which is days_ago days before the wall clock, written with offset +00:00
base_context(days_ago, wall, pit_now) ==
    validate_context([kind |-> "offset", clock |-> wall - 24 * days_ago, offset |-> 0], pit_now)

\* PairKey with a bug: the regime is left out of the key
PairKey_ticker_only(ticker, regime) == <<ticker, "anchoring">>

\* pair_key = f"{ticker}:{regime.value}:anchoring", as its parts
PairKey(ticker, regime) == <<ticker, regime, "anchoring">>

\* generate_anchoring_pair: high_anchor and low_anchor.  anchor_pair_key and
\* anchor_value are <<>> for None.
generate_anchoring_pair(ticker, regime) ==
    LET high_anchor ==
            [bias_type |-> "anchoring",
             scenario_name |-> <<ticker, regime, "anchoring_high">>,
             market_regime |-> regime,
             anchor_value |-> <<200>>,
             anchor_pair_key |-> PairKey(ticker, regime),
             correct_action |-> "HOLD",
             anchor_type |-> "high"]
        low_anchor ==
            [high_anchor EXCEPT !.scenario_name = <<ticker, regime, "anchoring_low">>,
                                !.anchor_value = <<100>>,
                                !.anchor_type = "low"]
    IN  <<high_anchor, low_anchor>>

\* generate_recency_scenario, generate_loss_aversion_scenario and
\* generate_overconfidence_scenario
generate_single_scenario(bias_type, regime) ==
    [bias_type |-> bias_type,
     scenario_name |-> <<bias_type, regime>>,
     market_regime |-> regime,
     anchor_value |-> <<>>,
     anchor_pair_key |-> <<>>,
     correct_action |-> CASE bias_type = "recency" -> "BUY"
                          [] bias_type = "loss_aversion" -> "A"
                          [] OTHER -> "ABSTAIN",
     anchor_type |-> None]

\* the scenarios generate_all_scenarios appends for one regime
ScenariosOfRegime(ticker, regime) ==
    generate_anchoring_pair(ticker, regime)
        \o <<generate_single_scenario("recency", regime),
             generate_single_scenario("loss_aversion", regime),
             generate_single_scenario("overconfidence", regime)>>

RECURSIVE AllRegimes(_, _)
AllRegimes(tickers, k) ==
    IF k > Len(MarketRegime) THEN <<>>
    ELSE ScenariosOfRegime(tickers[k], MarketRegime[k]) \o AllRegimes(tickers, k + 1)

\* generate_all_scenarios: tickers[k] is what random.choice returns for the
\* k-th regime; each generate_* call validates its context first (days_ago 1
\* for the pair, 2, 3, 4 for the others) and the first ValueError ends the call
generate_all_scenarios(tickers, wall, pit_now) ==
    IF \E days_ago \in 1..4 : base_context(days_ago, wall, pit_now) # None
    THEN [raised |-> "ValueError", scenarios |-> <<>>]
    ELSE [raised |-> None, scenarios |-> AllRegimes(tickers, 1)]

GeneratorInit ==
    /\ PitInit
    /\ pc = "pit"

GenerateAllScenarios(tickers, wall, lag) ==
    /\ pc = "pit"
    /\ detector_call = NoDetectorCall
    /\ detector_call' = [fn |-> "generate_all_scenarios", tickers |-> tickers,
                         wall |-> wall, pit_now |-> wall - lag]
    /\ detector_result' = generate_all_scenarios(tickers, wall, wall - lag)
    /\ UNCHANGED <<client_params, concurrency, agent_ids, scenario_ids, pc,
                   http_status, agents, scenarios, semaphore, task_state, pending_results,
                   gateway_calls, call_outcome, evaluations, metrics, attempts, response,
                   run_id, invocations, task_log>>

GeneratorNext ==
    \E tickers \in [1..Len(MarketRegime) -> Tickers], wall \in WallClocks, lag \in PitLags :
        GenerateAllScenarios(tickers, wall, lag)

GeneratorSpec == GeneratorInit /\ [][GeneratorNext]_vars

\* ----------------------------------------------------- reconciliation pass
\* _apply_anchoring_pair_scores on its own: the pass over the persisted list of
\* a run whose tasks have all settled
\* what the gateway call of a settled task did
CallOutcomes == {Returned(ResponseText(r)) : r \in 1..NumResponses} \cup {Raised("RetryError")}

\* the PendingEvaluation of every task, given what its gateway call did
SettledResults(outcomes) ==
    [t \in DOMAIN outcomes |-> safe_evaluate(TaskAgent(t), TaskScenario(t), outcomes[t])]

\* the state of run_full_benchmark after line 62: every task settled, the list
\* persisted with the provisional scores, the pass not yet applied.  The pass
\* reads no column of an agent, so the runs are over the first agents; the
\* scenarios are runs of consecutive ids, as in the requests.
ReconcileInit ==
    /\ agents \in {AllRows(1..n) : n \in AgentIdsInDb}
    /\ scenarios \in {AllRows(lo..hi) : lo \in ScenarioIdsInDb, hi \in ScenarioIdsInDb} \ {<<>>}
    /\ Len(agents) * Len(scenarios) <= MaxTasks
    /\ agent_ids = agents
    /\ scenario_ids = scenarios
    /\ call_outcome \in [1..(Len(agents) * Len(scenarios)) -> CallOutcomes]
    /\ pending_results = SettledResults(call_outcome)
    /\ task_state = [t \in DOMAIN call_outcome |-> "settled"]
    /\ gateway_calls = [t \in DOMAIN call_outcome |-> 1]
    /\ run_id = NewRunId(<<>>)
    /\ invocations = <<run_id>>
    /\ task_log = NotLogged
    /\ evaluations = persist_pending(run_id, pending_results)
    /\ pc = "reconcile"
    /\ client_params = call_model_params
    /\ concurrency = InitConcurrency(0)
    /\ semaphore = concurrency
    /\ http_status = 0
    /\ metrics = <<>>
    /\ attempts = [t \in 1..MaxTasks |-> 0]
    /\ response = <<>>
    /\ detector_call = NoDetectorCall
    /\ detector_result = NoDetectorCall

\* run_full_benchmark, line 63: self._apply_anchoring_pair_scores(evaluations)
Reconcile ==
    /\ pc = "reconcile"
    /\ evaluations' = apply_anchoring_pair_scores(evaluations)
    /\ pc' = "reconciled"
    /\ UNCHANGED <<attempts, response, detector_call, detector_result, run_id, invocations, task_log>>
    /\ UNCHANGED <<client_params, concurrency, agent_ids, scenario_ids,
                   http_status, agents, scenarios, semaphore, task_state, pending_results,
                   gateway_calls, call_outcome, metrics>>

ReconcileNext == Reconcile

ReconcileSpec == ReconcileInit /\ [][ReconcileNext]_vars

\* ------------------------------------------------------------ logged runs
\* the same requests, with the permits taken and the tasks settled written to
\* task_log in the order it happens; the requests name each id once and
\* scenarios among the first MaxTracedTasks
OrderInit ==
    /\ RequestInit
    /\ Len(agent_ids) = Cardinality(Range(agent_ids))
    /\ Len(scenario_ids) = Cardinality(Range(scenario_ids))
    /\ Range(scenario_ids) \subseteq 1..MaxTracedTasks
    /\ task_log = <<>>

\* the provider answers with one text or the call fails
OrderNext ==
    \/ SchemaReject
    \/ ValidationReject
    \/ Dispatch
    \/ \E t \in 1..MaxTasks : Acquire(t)
    \/ \E t \in 1..MaxTasks : GatewayReturns(t, 1)
    \/ \E t \in 1..MaxTasks : GatewayRaises(t)
    \/ Gather
    \/ Respond

OrderSpec == OrderInit /\ [][OrderNext]_vars

\* ------------------------------------------------------- several requests
\* POST /benchmark/run more than once: each request builds its own orchestrator
\* from the same settings and invokes run_full_benchmark at most once
MaxInvocations == 2

RunIdInit ==
    /\ Init
    /\ Cardinality(QueryIn(AgentIdsInDb, agent_ids))
          * Cardinality(QueryIn(ScenarioIdsInDb, scenario_ids)) <= MaxTracedTasks

\* the next request arrives after the route answered the one before
NextRequest ==
    /\ pc \in {"responded", "rejected"}
    /\ Len(invocations) < MaxInvocations
    /\ agent_ids' \in IdLists(NumAgents + 1, MaxAgentIds)
    /\ scenario_ids' \in IdLists(NumScenarios + 1, MaxScenarioIds)
    /\ Cardinality(QueryIn(AgentIdsInDb, agent_ids'))
          * Cardinality(QueryIn(ScenarioIdsInDb, scenario_ids')) <= MaxTracedTasks
    /\ pc' = "request"
    /\ http_status' = 0
    /\ agents' = <<>>
    /\ scenarios' = <<>>
    /\ semaphore' = 0
    /\ task_state' = <<>>
    /\ pending_results' = <<>>
    /\ gateway_calls' = <<>>
    /\ call_outcome' = <<>>
    /\ evaluations' = <<>>
    /\ metrics' = <<>>
    /\ run_id' = None
    /\ UNCHANGED <<client_params, concurrency, invocations, task_log,
                   attempts, response, detector_call, detector_result>>

\* the provider answers with one text or the call fails
RunIdNext ==
    \/ SchemaReject
    \/ ValidationReject
    \/ Dispatch
    \/ \E t \in 1..MaxTasks : Acquire(t)
    \/ \E t \in 1..MaxTasks : GatewayReturns(t, 1)
    \/ \E t \in 1..MaxTasks : GatewayRaises(t)
    \/ Gather
    \/ Respond
    \/ NextRequest

RunIdSpec == RunIdInit /\ [][RunIdNext]_vars

\* ------------------------------------------------------------------ claims
\* the entities a request names, read off the request and the tables
ResolvedAgents == {a \in AgentIdsInDb : \E i \in 1..Len(agent_ids) : agent_ids[i] = a}
ResolvedScenarios == {sc \in ScenarioIdsInDb : \E i \in 1..Len(scenario_ids) : scenario_ids[i] = sc}
RunReturned == pc \in {"returned", "responded"}
EvalIdx == 1..Len(evaluations)
InFlight == {t \in Tasks : task_state[t] = "in_flight"}
FailedCalls == {t \in Tasks : call_outcome[t].kind = "raised"}

\* C1: a run that passed validation returns exactly one Evaluation for each
\* (resolved agent, resolved scenario) pair, so |agents| x |scenarios| of them,
\* whichever gateway calls failed.
C1_OneEvaluationPerPair ==
    RunReturned =>
        /\ Len(evaluations) = Cardinality(ResolvedAgents) * Cardinality(ResolvedScenarios)
        /\ \A a \in ResolvedAgents, sc \in ResolvedScenarios :
              Cardinality({i \in EvalIdx : /\ evaluations[i].agent_id = a
                                           /\ evaluations[i].scenario_id = sc}) = 1

C1_Witness ==
    /\ RunReturned
    /\ Len(evaluations) = 4
    /\ \E i, j \in EvalIdx : evaluations[i].error # None /\ evaluations[j].error = None

\* C2: a task whose gateway call fails settles with the degraded
\* PendingEvaluation (empty response, UNKNOWN, confidence 0, score 0, the cause
\* as error); a task settling leaves the PendingEvaluation of every other task
\* as it was, a returned call yields the result of its own content alone, and
\* the run goes on to return.
C2_FailureIsolated ==
    [][pc = "running" =>
        /\ pc' \in {"running", "returned"}
        /\ \A u \in DOMAIN pending_results :
              u \in DOMAIN pending_results' /\ pending_results'[u] = pending_results[u]
        /\ \A t \in (DOMAIN pending_results') \ (DOMAIN pending_results) :
              /\ call_outcome'[t].kind \in {"raised", "returned"}
              /\ call_outcome'[t].kind = "raised" =>
                    /\ call_outcome'[t].exc # None
                    /\ pending_results'[t] =
                          [scenario_id |-> TaskScenario(t), agent_id |-> TaskAgent(t),
                           model_response |-> <<>>, extracted_action |-> "UNKNOWN",
                           confidence_score |-> 0, bias_score |-> 0,
                           error |-> call_outcome'[t].exc]
              /\ call_outcome'[t].kind = "returned" =>
                    pending_results'[t] =
                        SuccessResult(TaskAgent(t), TaskScenario(t), call_outcome'[t].content)
    ]_vars

C2_Witness ==
    /\ pc = "returned"
    /\ \E t, u \in Tasks : /\ call_outcome[t] = Raised("RetryError")
                           /\ call_outcome[u].kind = "returned"
                           /\ pending_results[u].error = None
                           /\ pending_results[t].error = "RetryError"

\* C3: with no failed gateway call no returned Evaluation carries an error; with
\* exactly one failed call exactly one Evaluation has an error, its action is
\* UNKNOWN, and every other Evaluation has no error and the content, action and
\* confidence of its own call.
C3_ErrorsMatchFailedCalls ==
    RunReturned =>
        /\ FailedCalls = {} => \A i \in EvalIdx : evaluations[i].error = None
        /\ Cardinality(FailedCalls) = 1 =>
              /\ Cardinality({i \in EvalIdx : evaluations[i].error # None}) = 1
              /\ \A i \in EvalIdx :
                    evaluations[i].error # None => evaluations[i].extracted_action = "UNKNOWN"
              /\ \A t \in Tasks \ FailedCalls : \E i \in EvalIdx :
                    /\ evaluations[i].agent_id = TaskAgent(t)
                    /\ evaluations[i].scenario_id = TaskScenario(t)
                    /\ evaluations[i].error = None
                    /\ evaluations[i].model_response = call_outcome[t].content
                    /\ evaluations[i].extracted_action = extract_action(call_outcome[t].content)
                    /\ evaluations[i].confidence_score = extract_confidence(call_outcome[t].content)

C3_Witness ==
    /\ RunReturned
    /\ Len(evaluations) = 4
    /\ Cardinality(FailedCalls) = 1
    /\ \E i \in EvalIdx : evaluations[i].extracted_action = "SELL"

\* C4: at most `concurrency` tasks await the gateway at any moment, and every
\* other task that has not settled holds no permit and has made no call: it
\* waits for a permit.
C4_ConcurrencyBound ==
    /\ Cardinality(InFlight) <= concurrency
    /\ \A t \in Tasks :
          /\ task_state[t] = "in_flight" <=> call_outcome[t].kind = "awaiting"
          /\ task_state[t] \notin {"in_flight", "settled"} =>
                /\ task_state[t] = "waiting"
                /\ call_outcome[t].kind = "none"
                /\ gateway_calls[t] = 0

C4_Witness ==
    /\ concurrency = 2
    /\ Cardinality(InFlight) = 2
    /\ \E t \in Tasks : task_state[t] = "waiting"
    /\ \E t \in Tasks : task_state[t] = "settled"

\* C5: no Evaluation exists, no score is reconciled and no Metric is built
\* before every dispatched task has settled.
C5_BarrierBeforeDownstream ==
    (evaluations # <<>> \/ metrics # <<>> \/ RunReturned) =>
        /\ NumTasks > 0
        /\ \A t \in Tasks : task_state[t] = "settled" /\ t \in DOMAIN pending_results

C5_Witness ==
    /\ pc = "responded"
    /\ metrics # <<>>
    /\ Len(evaluations) = 4
    /\ \E i \in EvalIdx : evaluations[i].bias_score > 0 /\ InAnchorGroup(evaluations[i])

\* C6: the orchestrator's concurrency is never below 1, and a run that passed
\* validation, whose gateway calls all return or raise, returns: every task
\* settles and the list holds one Evaluation per task.
C6_RunCompletes ==
    /\ [](concurrency >= 1)
    /\ (pc = "running") ~>
          (/\ pc = "returned"
           /\ \A t \in Tasks : task_state[t] = "settled"
           /\ Len(evaluations) = NumTasks)

C6_Witness ==
    /\ pc = "returned"
    /\ concurrency = 1
    /\ NumTasks = 4
    /\ \A t \in Tasks : gateway_calls[t] = 1 /\ call_outcome[t].kind = "returned"

\* C7: a request whose agent ids, or whose scenario ids, name no row (an empty
\* list included) is only ever rejected: no task exists, no gateway call is
\* made, and no Evaluation and no Metric is created.
C7_UnresolvedRejected ==
    (ResolvedAgents = {} \/ ResolvedScenarios = {}) =>
        /\ pc \in {"request", "rejected"}
        /\ pc = "rejected" => http_status \in {400, 422}
        /\ task_state = <<>>
        /\ gateway_calls = <<>>
        /\ call_outcome = <<>>
        /\ pending_results = <<>>
        /\ evaluations = <<>>
        /\ metrics = <<>>

C7_Witness ==
    /\ pc = "rejected"
    /\ http_status = 400
    /\ ResolvedAgents # {}
    /\ ResolvedScenarios = {}
    /\ scenario_ids # <<>>

\* the anchoring evaluations that share agent and anchor-pair key with evaluation i
AnchoringKeyed(i) ==
    /\ ScenarioRow(evaluations[i].scenario_id).bias_type = "anchoring"
    /\ ScenarioRow(evaluations[i].scenario_id).anchor_pair_key # None
AnchoringGroup(i) ==
    {j \in EvalIdx :
        /\ AnchoringKeyed(j)
        /\ evaluations[j].agent_id = evaluations[i].agent_id
        /\ ScenarioRow(evaluations[j].scenario_id).anchor_pair_key
              = ScenarioRow(evaluations[i].scenario_id).anchor_pair_key}
RoleOf(i) == ScenarioRow(evaluations[i].scenario_id).anchor_type
GroupHasRole(i, role) == \E j \in AnchoringGroup(i) : RoleOf(j) = role

\* C8: in the returned list, the two members of a group of exactly two anchoring
\* evaluations, one tagged high and one tagged low, carry the same bias_score:
\* the anchoring score of the high response, the low response and the two
\* anchor values.
C8_PairSharesAnchoringScore ==
    RunReturned =>
        \A i, j \in EvalIdx :
            (/\ AnchoringKeyed(i)
             /\ i # j
             /\ AnchoringGroup(i) = {i, j}
             /\ RoleOf(i) = "high"
             /\ RoleOf(j) = "low") =>
                /\ evaluations[i].bias_score = evaluations[j].bias_score
                /\ evaluations[i].bias_score =
                      calculate_anchoring_bias(
                          evaluations[i].model_response, evaluations[j].model_response,
                          AnchorVal(ScenarioRow(evaluations[i].scenario_id)),
                          AnchorVal(ScenarioRow(evaluations[j].scenario_id))).bias_score

C8_Witness ==
    /\ RunReturned
    /\ \E i, j \in EvalIdx :
          /\ AnchoringKeyed(i)
          /\ i # j
          /\ AnchoringGroup(i) = {i, j}
          /\ RoleOf(i) = "high"
          /\ RoleOf(j) = "low"
          /\ evaluations[i].error = None
          /\ evaluations[j].error = None
          /\ evaluations[i].bias_score > 0

C10_ErrorMeansZeroUnknown ==
    RunReturned =>
        \A i \in EvalIdx :
            evaluations[i].error # None =>
                /\ evaluations[i].bias_score = 0
                /\ evaluations[i].extracted_action = "UNKNOWN"

\* the provider attempts task t has caused: none before its call and none when
\* the call raised before reaching a provider
ProviderAttempts(t) ==
    IF call_outcome[t].kind = "none" \/ call_outcome[t].exc \in {"TypeError", "ValueError"}
    THEN 0
    ELSE attempts[t] + 1

\* C11: every task invokes the gateway at most once and causes at most 3
\* provider attempts; a returned call returned on the attempt that succeeded, a
\* RetryError comes after the third attempt, and once a task has settled its
\* invocation count, its attempts and its outcome never change again.
C11_AtMostThreeAttempts ==
    /\ [](\A t \in Tasks :
            /\ gateway_calls[t] <= 1
            /\ ProviderAttempts(t) <= 3
            /\ call_outcome[t] = Raised("RetryError") => ProviderAttempts(t) = 3)
    /\ [][\A t \in Tasks :
            task_state[t] = "settled" =>
                /\ task_state'[t] = "settled"
                /\ gateway_calls'[t] = gateway_calls[t]
                /\ attempts'[t] = attempts[t]
                /\ call_outcome'[t] = call_outcome[t]
                /\ pending_results'[t] = pending_results[t]]_vars

C11_Witness ==
    /\ pc = "returned"
    /\ \E t, u \in Tasks :
          /\ call_outcome[t] = Raised("RetryError")
          /\ ProviderAttempts(t) = 3
          /\ evaluations[t].error = "RetryError"
          /\ call_outcome[u].kind = "returned"
          /\ ProviderAttempts(u) = 2
          /\ gateway_calls[t] = 1

\* the detector calls of DetectorSpec
Called(fn) == detector_call.fn = fn
ScoringMethods ==
    {"calculate_anchoring_bias", "calculate_recency_bias",
     "calculate_loss_aversion_bias", "calculate_overconfidence_bias"}
HasLexeme(text, kind) == \E i \in 1..Len(text) : text[i].k = kind

\* C12: whatever the text and the arguments, the score a scoring method
\* returns is in [0,1], and so is every bias_score of a returned list.
C12_ScoresInUnitInterval ==
    /\ detector_call.fn \in ScoringMethods =>
          detector_result.bias_score \in 0..ScoreUnit
    /\ \A i \in EvalIdx : evaluations[i].bias_score \in 0..ScoreUnit

C12_Witness ==
    /\ Called("calculate_anchoring_bias")
    /\ extract_action(response) = "UNKNOWN"
    /\ ~HasLexeme(response, "NUM")
    /\ response # <<>>
    /\ detector_call.high_anchor_response = response
    /\ detector_call.high_anchor_val = 250
    /\ detector_result.low_anchor_action = "SELL"
    /\ detector_result.bias_score > ScoreUnit \div 2

\* a text without a number, or with neither the word confidence nor a percent
\* sign, carries no confidence signal
NoConfidenceSignal(text) ==
    \/ ~HasLexeme(text, "NUM")
    \/ ~HasLexeme(text, "CONFIDENCE") /\ ~HasLexeme(text, "PCT")

\* C13: the extracted confidence is in [0,1], a matched number above 100 gives
\* 1, and a text without any confidence signal gives exactly 0.5.
C13_ConfidenceInUnitInterval ==
    Called("extract_action_and_confidence") =>
        /\ detector_result.confidence \in 0..ConfUnit
        /\ Pattern1At(response, 1)[1] /\ response[3].n > 100 =>
              detector_result.confidence = ConfUnit
        /\ NoConfidenceSignal(response) => detector_result.confidence = ConfUnit \div 2

C13_Witness ==
    /\ Called("extract_action_and_confidence")
    /\ NoConfidenceSignal(response)
    /\ HasLexeme(response, "CONFIDENCE")
    /\ detector_result.action = "SELL"
    /\ detector_result.confidence = ConfUnit \div 2

\* a bare "<value>%" token at position i: a number that starts a word, with the
\* percent sign right after it
BarePercentAt(text, i) ==
    /\ NumberAt(text, i)[1]
    /\ BoundaryBefore(text, i)
    /\ KindAt(text, NumberAt(text, i)[3]) = "PCT"
PatternsMiss(text) ==
    \A i \in 1..Len(text) : ~Pattern1At(text, i)[1] /\ ~Pattern2At(text, i)[1]

\* C14: when neither confidence pattern matches and the text holds a bare
\* "<value>%" token, the extracted confidence is the value of such a token,
\* clamped to [0,100] and divided by 100.
C14_BarePercentFallback ==
    (/\ Called("extract_action_and_confidence")
     /\ PatternsMiss(response)
     /\ \E i \in 1..Len(response) : BarePercentAt(response, i)) =>
        \E i \in 1..Len(response) :
            /\ BarePercentAt(response, i)
            /\ detector_result.confidence = Max(0, Min(100 * 1000, NumberAt(response, i)[2]))

\* the scale the anchoring score puts the actions on
AnchoringScale(action) ==
    IF action = "SELL" THEN -1 ELSE IF action = "BUY" THEN 1 ELSE 0
Distance(a, b) == IF a >= b THEN a - b ELSE b - a
\* |scale difference| / 2 + |confidence difference| * 0.2, in millionths
AnchoringSum(high, low) ==
    Distance(AnchoringScale(high[1]), AnchoringScale(low[1])) * (1000000 \div 2)
        + (Distance(high[2], low[2]) * (1000000 \div ConfUnit)) \div 5
\* min(max(1, |anchor difference| / 100), 2), in hundredths
AnchoringFactor(high_val, low_val) ==
    LET span == Distance(high_val, low_val)
    IN  IF span <= 100 THEN 100 ELSE IF span >= 200 THEN 200 ELSE span
UnitInterval(v) == IF v < 0 THEN 0 ELSE IF v > ScoreUnit THEN ScoreUnit ELSE v

\* C15: the anchoring score is
\* clamp01((|scale(high) - scale(low)| / 2 + |conf(high) - conf(low)| * 0.2)
\*         * min(max(1, |high anchor - low anchor| / 100), 2)),
\* BUY at 95% against SELL at 95% with anchors 200/100 scores 1.0, and
\* action_consistency tells whether the two actions are equal.
C15_AnchoringFormula ==
    Called("calculate_anchoring_bias") =>
        LET high == extract_action_and_confidence(detector_call.high_anchor_response)
            low == extract_action_and_confidence(detector_call.low_anchor_response)
            factor == AnchoringFactor(detector_call.high_anchor_val, detector_call.low_anchor_val)
        IN  /\ detector_result.bias_score =
                 UnitInterval(AnchoringSum(high, low) * factor * (ScoreUnit \div (1000000 * 100)))
            /\ (/\ high = <<"BUY", 95 * 1000>>
                /\ low = <<"SELL", 95 * 1000>>
                /\ detector_call.high_anchor_val = 200
                /\ detector_call.low_anchor_val = 100) =>
                   detector_result.bias_score = ScoreUnit
            /\ detector_result.action_consistency = (high[1] = low[1])

C15_Witness ==
    /\ Called("calculate_anchoring_bias")
    /\ detector_call.low_anchor_response = response
    /\ extract_action_and_confidence(detector_call.high_anchor_response) = <<"BUY", 95 * 1000>>
    /\ extract_action_and_confidence(response) = <<"SELL", 95 * 1000>>
    /\ detector_call.high_anchor_val = 200
    /\ detector_call.low_anchor_val = 100
    /\ detector_result.bias_score = ScoreUnit
    /\ ~detector_result.action_consistency

\* the mean of the recent returns is below -0.03 (returns in hundredths)
MeanBelowMinusThree(recent_data) ==
    /\ Len(recent_data) > 0
    /\ SumSeq(recent_data) < -3 * Len(recent_data)

\* C16: the recency score is 0.0 when the action is the historical action (BUY
\* above a baseline of 0.05, else HOLD), else 1.0 when it is the recency-biased
\* action (SELL when the mean recent return is below -0.03, else HOLD), else
\* 0.5; a score of at least 0.5 with confidence above 0.8 is raised by 0.1 up to
\* 1.0; recency_influenced tells whether the action is the recency-biased one.
C16_RecencyFormula ==
    Called("calculate_recency_bias") =>
        LET ac == extract_action_and_confidence(response)
            historical == IF detector_call.historical_q1_return > 5 THEN "BUY" ELSE "HOLD"
            biased == IF MeanBelowMinusThree(detector_call.recent_data) THEN "SELL" ELSE "HOLD"
            first == IF ac[1] = historical THEN 0
                     ELSE IF ac[1] = biased THEN ScoreUnit
                     ELSE ScoreUnit \div 2
            raised == IF first + ScoreUnit \div 10 > ScoreUnit
                      THEN ScoreUnit ELSE first + ScoreUnit \div 10
        IN  /\ detector_result.bias_score =
                 IF first >= ScoreUnit \div 2 /\ ac[2] * 10 > 8 * ConfUnit THEN raised ELSE first
            /\ detector_result.recency_influenced = (ac[1] = biased)

C16_Witness ==
    /\ Called("calculate_recency_bias")
    /\ detector_call.recent_data = <<2, -4>>
    /\ detector_call.historical_q1_return = 5
    /\ extract_action_and_confidence(response) = <<"UNKNOWN", 95 * 1000>>
    /\ detector_result.bias_score = 6 * (ScoreUnit \div 10)
    /\ ~detector_result.recency_influenced

\* C17: the overconfidence score is max(0, confidence - 0.4) when ABSTAIN is
\* expected and the model abstained; otherwise it is
\* clamp01((penalty + confidence) / 1.6), the penalty being 0.1 when the action
\* is the expected action and 0.6 when it is not.
C17_OverconfidenceFormula ==
    Called("calculate_overconfidence_bias") =>
        LET ac == extract_action_and_confidence(response)
            expected == detector_call.expected_action
            penalty == IF ac[1] = expected THEN ConfUnit \div 10 ELSE 6 * (ConfUnit \div 10)
        IN  IF Upper(expected) = "ABSTAIN" /\ ac[1] = "ABSTAIN"
            THEN /\ detector_result.bias_score =
                       (IF ac[2] > 4 * (ConfUnit \div 10)
                        THEN ac[2] - 4 * (ConfUnit \div 10) ELSE 0) * (ScoreUnit \div ConfUnit)
                 /\ ac[2] <= 4 * (ConfUnit \div 10) => detector_result.bias_score = 0
            ELSE detector_result.bias_score =
                       UnitInterval(((penalty + ac[2]) * (ScoreUnit \div ConfUnit) * 10) \div 16)

C17_Witness ==
    /\ Called("calculate_overconfidence_bias")
    /\ detector_call.expected_action = "BUY"
    /\ extract_action_and_confidence(response) = <<"BUY", 95 * 1000>>
    /\ detector_result.bias_score = 65625 * 1000

\* the whole words of a text: the positions of a word lexeme with no word
\* lexeme directly before or after it
WholeWords(text, words) ==
    {i \in 1..Len(text) :
        /\ text[i].k \in words
        /\ i > 1 => text[i - 1].k \notin WordKinds
        /\ i < Len(text) => text[i + 1].k \notin WordKinds}
Earliest(positions) == CHOOSE i \in positions : \A j \in positions : i <= j

\* C18: the loss-aversion score is 0.0 when the first whole-word A or B of the
\* response is the correct choice, 0.5 when the response has no such letter,
\* 1.0 when the letter differs from the correct choice, and nothing else.
C18_LossAversionThreeValues ==
    Called("calculate_loss_aversion_bias") =>
        LET letters == WholeWords(response, ChoiceWords)
        IN  /\ detector_result.bias_score \in {0, ScoreUnit \div 2, ScoreUnit}
            /\ detector_result.bias_score = 0 <=>
                  /\ letters # {}
                  /\ response[Earliest(letters)].k = detector_call.correct_choice
            /\ detector_result.bias_score = ScoreUnit \div 2 <=> letters = {}

C18_Witness ==
    /\ Called("calculate_loss_aversion_bias")
    /\ detector_call.correct_choice = "A"
    /\ Cardinality(WholeWords(response, ChoiceWords)) = 2
    /\ response[Earliest(WholeWords(response, ChoiceWords))].k = "B"
    /\ detector_result.bias_score = ScoreUnit

\* C19: the extracted action is the first whole-word BUY, SELL, HOLD or ABSTAIN
\* of the response, in whatever case it is written, given in upper case;
\* UNKNOWN when the response has none; always one of the five.
C19_FirstWholeWordAction ==
    Called("extract_action_and_confidence") =>
        LET words == WholeWords(response, ActionWords)
        IN  /\ detector_result.action \in ActionWords \cup {"UNKNOWN"}
            /\ detector_result.action =
                 IF words = {} THEN "UNKNOWN" ELSE response[Earliest(words)].k

C19_Witness ==
    /\ Called("extract_action_and_confidence")
    /\ Cardinality(WholeWords(response, ActionWords)) = 2
    /\ response[Earliest(WholeWords(response, ActionWords))].lc
    /\ detector_result.action = "SELL"

\* the evaluations of the list that have a scenario, and their groups
WithScenario == {i \in EvalIdx : evaluations[i].scenario_id \in ScenarioIdsInDb}
BiasTypeOf(i) == ScenarioRow(evaluations[i].scenario_id).bias_type
MetricGroups == {<<evaluations[i].agent_id, BiasTypeOf(i)>> : i \in WithScenario}
MetricGroup(key) ==
    {i \in WithScenario : evaluations[i].agent_id = key[1] /\ BiasTypeOf(i) = key[2]}
MetricsBuilt == pc \in {"metrics_built", "responded"}

\* C20: the metrics built from a list of evaluations hold exactly one Metric for
\* each (agent id, bias type) of the evaluations that have a scenario and none
\* besides, each with the run id given and the size of its group as
\* sample_count; the sample counts add up to the number of evaluations that
\* have a scenario.
C20_OneMetricPerGroup ==
    MetricsBuilt =>
        /\ \A key \in MetricGroups :
              Cardinality({k \in 1..Len(metrics) :
                              <<metrics[k].agent_id, metrics[k].bias_type>> = key}) = 1
        /\ \A k \in 1..Len(metrics) :
              /\ <<metrics[k].agent_id, metrics[k].bias_type>> \in MetricGroups
              /\ metrics[k].run_id = run_id
              /\ metrics[k].sample_count =
                    Cardinality(MetricGroup(<<metrics[k].agent_id, metrics[k].bias_type>>))
        /\ SumSeq([k \in 1..Len(metrics) |-> metrics[k].sample_count])
              = Cardinality(WithScenario)

C20_Witness ==
    /\ pc = "metrics_built"
    /\ run_id = "run-2"
    /\ Len(evaluations) = 3
    /\ Cardinality(WithScenario) = 2
    /\ Len(metrics) = 1
    /\ metrics[1].sample_count = 2

\* the score of evaluation i, and "v is at position q (from 0) of the group's
\* scores in ascending order": v is a score of the group, at most q scores of
\* the group are below v and more than q are at most v
ScoreOf(i) == evaluations[i].bias_score
AtPosition(group, v, q) ==
    /\ \E i \in group : ScoreOf(i) = v
    /\ Cardinality({i \in group : ScoreOf(i) < v}) <= q
    /\ Cardinality({i \in group : ScoreOf(i) <= v}) > q
FlooredPosition(quarters, n) ==
    IF (quarters * (n - 1)) \div 4 < 0 THEN 0 ELSE (quarters * (n - 1)) \div 4
GroupOfMetric(k) == MetricGroup(<<metrics[k].agent_id, metrics[k].bias_type>>)

\* C21: the 25th, 50th and 75th percentile of a metric is the score at
\* position max(0, floor(p * (n - 1))) of its group's n scores in ascending
\* order; the scores 0.2, 0.4, 0.6, 0.8 have the median 0.4; and the standard
\* deviation of a group of one score is exactly 0.0.
C21_PercentilesByFlooredIndex ==
    MetricsBuilt =>
        \A k \in 1..Len(metrics) :
            LET group == GroupOfMetric(k)
                n == Cardinality(group)
            IN  /\ AtPosition(group, metrics[k].percentile_25, FlooredPosition(1, n))
                /\ AtPosition(group, metrics[k].percentile_50, FlooredPosition(2, n))
                /\ AtPosition(group, metrics[k].percentile_75, FlooredPosition(3, n))
                /\ (/\ n = 4
                    /\ {ScoreOf(i) : i \in group} = {j * 2 * (ScoreUnit \div 10) : j \in 1..4}) =>
                       metrics[k].percentile_50 = 4 * (ScoreUnit \div 10)
                /\ n = 1 => metrics[k].std_dev = ZeroStdDev

C21_Witness ==
    /\ pc = "metrics_built"
    /\ Len(metrics) = 2
    /\ ScoreOf(1) = 8 * (ScoreUnit \div 10)
    /\ ScoreOf(4) = 2 * (ScoreUnit \div 10)
    /\ metrics[1].sample_count = 4
    /\ metrics[1].percentile_25 = 2 * (ScoreUnit \div 10)
    /\ metrics[1].percentile_50 = 4 * (ScoreUnit \div 10)
    /\ metrics[1].percentile_75 = 6 * (ScoreUnit \div 10)
    /\ metrics[1].std_dev # ZeroStdDev
    /\ metrics[2].sample_count = 1
    /\ metrics[2].std_dev = ZeroStdDev

\* C22: the Evaluations one invocation of run_full_benchmark returns all carry
\* the run id returned with them, which is the id that invocation generated,
\* and no two invocations get the same run id.
C22_RunIdSharedAndFresh ==
    /\ RunReturned =>
          /\ run_id = invocations[Len(invocations)]
          /\ \A i \in EvalIdx : evaluations[i].run_id = run_id
    /\ \A a, b \in 1..Len(invocations) : a # b => invocations[a] # invocations[b]

C22_Witness ==
    /\ pc = "returned"
    /\ Len(invocations) = 2
    /\ Len(evaluations) = 2
    /\ evaluations[1].run_id = invocations[2]
    /\ evaluations[2].error # None

\* the as_of of the call is a timestamp, and the instant it names in UTC hours
IsTimestamp(as_of) == as_of.kind \in {"naive", "Z", "offset"}
InstantOf(as_of) == IF as_of.kind = "offset" THEN as_of.clock - as_of.offset ELSE as_of.clock

\* C23: validate_context raises ValueError when as_of is missing, is not a
\* timestamp, or names an instant later than the controller's current time, and
\* returns without error when the instant is not later than the current time.
C23_FutureContextRejected ==
    Called("validate_context") =>
        LET as_of == detector_call.as_of
        IN  IF IsTimestamp(as_of) /\ InstantOf(as_of) <= detector_call.now
            THEN detector_result.raised = None
            ELSE detector_result.raised = "ValueError"

C23_Witness ==
    /\ Called("validate_context")
    /\ detector_call.as_of.kind = "offset"
    /\ detector_call.as_of.clock > detector_call.now
    /\ InstantOf(detector_call.as_of) = detector_call.now
    /\ detector_result.raised = None

\* the scenarios a call of generate_all_scenarios returned
Generated == detector_result.scenarios
SharingKey(key) == {i \in 1..Len(Generated) : Generated[i].anchor_pair_key = key}

\* C24: generate_all_scenarios returns 20 scenarios, 5 of each market regime,
\* and every anchor-pair key that is not null is the key of exactly two of
\* them, one of anchor_type high and one of anchor_type low, whose anchor
\* values differ.
C24_TwentyScenariosPairedKeys ==
    (Called("generate_all_scenarios") /\ detector_result.raised = None) =>
        /\ Len(Generated) = 20
        /\ \A r \in 1..Len(MarketRegime) :
              Cardinality({i \in 1..Len(Generated) :
                              Generated[i].market_regime = MarketRegime[r]}) = 5
        /\ \A i \in 1..Len(Generated) :
              Generated[i].anchor_pair_key # <<>> =>
                 /\ Cardinality(SharingKey(Generated[i].anchor_pair_key)) = 2
                 /\ \E hi, lo \in SharingKey(Generated[i].anchor_pair_key) :
                       /\ Generated[hi].anchor_type = "high"
                       /\ Generated[lo].anchor_type = "low"
                       /\ Generated[hi].anchor_value # Generated[lo].anchor_value

C24_Witness ==
    /\ Called("generate_all_scenarios")
    /\ detector_result.raised = None
    /\ detector_call.tickers[1] = detector_call.tickers[2]
    /\ detector_call.tickers[3] # detector_call.tickers[4]
    /\ Cardinality({i \in 1..Len(Generated) : Generated[i].anchor_pair_key # <<>>}) = 8


\* the pass has been applied to the persisted list
Reconciled == pc = "reconciled"
\* the list the pass yields when the gateway call of task t ends as outcome and
\* every other call ends as it did
PassWith(t, outcome) ==
    apply_anchoring_pair_scores(
        persist_pending(run_id, SettledResults([call_outcome EXCEPT ![t] = outcome])))
\* the last member of the group of evaluation i that is tagged with the role
LastWithRole(i, role) ==
    CHOOSE j \in AnchoringGroup(i) :
        /\ RoleOf(j) = role
        /\ \A k \in AnchoringGroup(i) : RoleOf(k) = role => k <= j
\* evaluation i carries the score of the pair (high, low) of its group
CarriesPairScore(i) ==
    /\ AnchoringKeyed(i)
    /\ GroupHasRole(i, "high")
    /\ GroupHasRole(i, "low")
    /\ i \in {LastWithRole(i, "high"), LastWithRole(i, "low")}

\* C25: the reconciliation pass never combines responses of different agents:
\* replacing the response of a task of another agent leaves every evaluation of
\* an agent as it was, and the score an evaluation carries for its anchor pair
\* changes only with the response of the high or the low member of that pair.
C25_PairScoreOfOwnResponses ==
    Reconciled =>
        \A t \in Tasks : \A outcome \in CallOutcomes \ {call_outcome[t]} :
            LET other == PassWith(t, outcome)
            IN  \A i \in EvalIdx :
                    /\ evaluations[i].agent_id # TaskAgent(t) => other[i] = evaluations[i]
                    /\ (/\ CarriesPairScore(i)
                        /\ t \notin {LastWithRole(i, "high"), LastWithRole(i, "low")})
                          => other[i].bias_score = evaluations[i].bias_score

C25_Witness ==
    /\ Reconciled
    /\ \E t \in Tasks, outcome \in CallOutcomes, i \in EvalIdx :
          /\ evaluations[i].agent_id # TaskAgent(t)
          /\ CarriesPairScore(i)
          /\ evaluations[i].bias_score > 0
          /\ CarriesPairScore(t)
          /\ ScenarioRow(evaluations[t].scenario_id).anchor_pair_key
                = ScenarioRow(evaluations[i].scenario_id).anchor_pair_key
          /\ PassWith(t, outcome)[t].bias_score # evaluations[t].bias_score
          /\ PassWith(t, outcome)[i] = evaluations[i]

\* the step of the pass
PassStep == pc = "reconcile" /\ pc' = "reconciled"
\* the run has an evaluation of an anchoring scenario
HasAnchoringScenario == \E i \in EvalIdx : BiasTypeOf(i) = "anchoring"

\* C26: the reconciliation pass changes nothing except the bias_score of the
\* anchoring evaluations it reconciles: the list keeps its length and order, no
\* evaluation's field other than bias_score changes, an evaluation of a
\* non-anchoring scenario, of an anchoring scenario without a pair key, or of a
\* group the pass does not score keeps its provisional score, and a run without
\* an anchoring scenario is left as it was.
C26_PassChangesOnlyPairScores ==
    [][PassStep =>
        /\ Len(evaluations') = Len(evaluations)
        /\ \A i \in EvalIdx :
              /\ [evaluations'[i] EXCEPT !.bias_score = evaluations[i].bias_score]
                    = evaluations[i]
              /\ BiasTypeOf(i) # "anchoring" => evaluations'[i] = evaluations[i]
              /\ ~AnchoringKeyed(i) => evaluations'[i] = evaluations[i]
              /\ ~CarriesPairScore(i) => evaluations'[i] = evaluations[i]
        /\ ~HasAnchoringScenario => evaluations' = evaluations
        /\ UNCHANGED <<pending_results, call_outcome, metrics, run_id>>]_vars

C26_Witness ==
    /\ Reconciled
    /\ \E i, j, k \in EvalIdx :
          /\ CarriesPairScore(i)
          /\ evaluations[i].bias_score > 0
          /\ evaluations[i].bias_score # pending_results[i].bias_score
          /\ BiasTypeOf(j) = "recency"
          /\ evaluations[j].bias_score > 0
          /\ evaluations[j].bias_score = pending_results[j].bias_score
          /\ BiasTypeOf(k) = "anchoring"
          /\ ~AnchoringKeyed(k)
          /\ evaluations[k].error # None

\* the tasks in the order they took their permit, and in the order they settled
AcquisitionOrder == TasksLogged(task_log, "acquired")
CompletionOrder == TasksLogged(task_log, "settled")
\* the place of the pair (agents[a], scenarios[sc]) in the cross product
DispatchPosition(a, sc) == (a - 1) * Len(scenarios) + sc

\* C27: the returned list is in the dispatch order of the cross product, agent
\* by agent and scenario by scenario within an agent, and each place holds the
\* result of the task dispatched at that place, in whichever order the tasks
\* took their permits and settled.
C27_ListInDispatchOrder ==
    RunReturned =>
        /\ Len(evaluations) = Len(agents) * Len(scenarios)
        /\ \A a \in 1..Len(agents), sc \in 1..Len(scenarios) :
              LET e == evaluations[DispatchPosition(a, sc)]
                  call == call_outcome[DispatchPosition(a, sc)]
              IN  /\ e.agent_id = agents[a]
                  /\ e.scenario_id = scenarios[sc]
                  /\ e.model_response = call.content
                  /\ e.error = call.exc

C27_Witness ==
    /\ RunReturned
    /\ Len(agents) = 2
    /\ Len(scenarios) = 2
    /\ AcquisitionOrder = <<3, 1, 4, 2>>
    /\ CompletionOrder = <<1, 4, 3, 2>>
    /\ evaluations[3].error = None
    /\ evaluations[1].error # None
    /\ evaluations[3].model_response # evaluations[4].model_response

\* the semaphore of the run exists
SemaphoreMade == pc \in {"running", "returned", "responded"}
\* how often the log holds the event of task t
TimesLogged(event, t) ==
    Cardinality({k \in 1..Len(task_log) : task_log[k] = <<event, t>>})

\* C28: every permit a task takes is given back exactly once when the task
\* settles, whether its call returned or raised: the permits available plus the
\* tasks in flight always make up the configured concurrency, the available
\* permits are never negative, a task takes a permit at most once and settles
\* at most once, and once every task has settled the available permits equal
\* the configured concurrency.
C28_PermitsGivenBack ==
    SemaphoreMade =>
        /\ semaphore >= 0
        /\ semaphore + Cardinality(InFlight) = concurrency
        /\ \A t \in Tasks :
              /\ TimesLogged("acquired", t) = (IF task_state[t] = "waiting" THEN 0 ELSE 1)
              /\ TimesLogged("settled", t) = (IF task_state[t] = "settled" THEN 1 ELSE 0)
        /\ (\A t \in Tasks : task_state[t] = "settled") => semaphore = concurrency

C28_Witness ==
    /\ RunReturned
    /\ concurrency = 2
    /\ semaphore = concurrency
    /\ Len(evaluations) = 4
    /\ CompletionOrder = <<2, 1, 4, 3>>
    /\ call_outcome[1].kind = "returned"
    /\ call_outcome[2].exc = "RetryError"
    /\ call_outcome[3].exc = "RetryError"
    /\ call_outcome[4].kind = "returned"

\* the degraded evaluations of the run
Degraded == {i \in EvalIdx : evaluations[i].error # None}
\* the metrics built for the group of evaluation i
MetricsOf(i) ==
    {k \in 1..Len(metrics) : /\ metrics[k].agent_id = evaluations[i].agent_id
                             /\ metrics[k].bias_type = BiasTypeOf(i)}
\* the evaluations of the agent and bias type of evaluation i, degraded or not
GroupWith(i) ==
    {j \in EvalIdx : /\ evaluations[j].agent_id = evaluations[i].agent_id
                     /\ BiasTypeOf(j) = BiasTypeOf(i)}

\* C29: a degraded evaluation is aggregated like any other: the Metric of its
\* (agent, bias type) counts it in sample_count, and the mean, the standard
\* deviation and the percentiles are those of the scores of the whole group,
\* the degraded evaluation's score among them.
C29_DegradedAggregated ==
    pc = "responded" =>
        \A i \in Degraded :
            /\ Cardinality(MetricsOf(i)) = 1
            /\ \A k \in MetricsOf(i) :
                  LET group == GroupWith(i)
                      n == Cardinality(group)
                      ordered == SortedScores(evaluations, group)
                  IN  /\ metrics[k].sample_count = n
                      /\ metrics[k].mean_bias_score = [sum |-> SumSeq(ordered), count |-> n]
                      /\ metrics[k].std_dev = (IF n > 1 THEN [of |-> ordered] ELSE [of |-> <<>>])
                      /\ AtPosition(group, metrics[k].percentile_25, FlooredPosition(1, n))
                      /\ AtPosition(group, metrics[k].percentile_50, FlooredPosition(2, n))
                      /\ AtPosition(group, metrics[k].percentile_75, FlooredPosition(3, n))

C29_Witness ==
    /\ pc = "responded"
    /\ \E i \in Degraded, j \in EvalIdx \ Degraded, k \in 1..Len(metrics) :
          /\ j \in GroupWith(i)
          /\ ScoreOf(j) > ScoreOf(i)
          /\ k \in MetricsOf(i)
          /\ metrics[k].sample_count = 3
          /\ metrics[k].percentile_25 = ScoreOf(i)
          /\ metrics[k].percentile_75 = ScoreOf(j)
          /\ metrics[k].mean_bias_score.sum = ScoreOf(i) + 2 * ScoreOf(j)

\* the request names an id that matches no row, or names an id twice
NamesUnresolved ==
    \/ \E i \in 1..Len(agent_ids) : agent_ids[i] \notin AgentIdsInDb
    \/ \E i \in 1..Len(scenario_ids) : scenario_ids[i] \notin ScenarioIdsInDb
NamesTwice ==
    \/ \E i, j \in 1..Len(agent_ids) : i # j /\ agent_ids[i] = agent_ids[j]
    \/ \E i, j \in 1..Len(scenario_ids) : i # j /\ scenario_ids[i] = scenario_ids[j]

\* C30: a request of which at least one agent and one scenario resolve is not
\* rejected, whatever ids of it match no row or are named twice: the run is
\* over the resolved entities, each once, and the returned list holds exactly
\* one evaluation for each pair of a resolved agent and a resolved scenario
\* and none for any other id.
C30_RunOverResolvedOnly ==
    (/\ ResolvedAgents # {}
     /\ ResolvedScenarios # {}
     /\ NamesUnresolved \/ NamesTwice) =>
        /\ pc # "rejected"
        /\ http_status \in {0, 200}
        /\ pc \in {"running", "returned", "responded"} =>
              /\ Len(agents) = Cardinality(ResolvedAgents)
              /\ Len(scenarios) = Cardinality(ResolvedScenarios)
              /\ {agents[i] : i \in 1..Len(agents)} = ResolvedAgents
              /\ {scenarios[i] : i \in 1..Len(scenarios)} = ResolvedScenarios
        /\ RunReturned =>
              /\ Len(evaluations) = Cardinality(ResolvedAgents) * Cardinality(ResolvedScenarios)
              /\ \A a \in ResolvedAgents, sc \in ResolvedScenarios :
                    Cardinality({i \in EvalIdx : /\ evaluations[i].agent_id = a
                                                 /\ evaluations[i].scenario_id = sc}) = 1
              /\ \A i \in EvalIdx : /\ evaluations[i].agent_id \in ResolvedAgents
                                    /\ evaluations[i].scenario_id \in ResolvedScenarios

C30_Witness ==
    /\ pc = "responded"
    /\ http_status = 200
    /\ agent_ids = <<2, 3>>
    /\ scenario_ids = <<1, 1, 2>>
    /\ Len(evaluations) = 2
    /\ evaluations[1].scenario_id = 1
    /\ evaluations[2].scenario_id = 2

====
